---------------------------- MODULE Spec2Model ----------------------------
(***************************************************************************)
(* Model of the Flutter auto-localizer scripts.                            *)
(*                                                                         *)
(*   apply_localization_suggestions.py  class LocalizationApplier          *)
(*   flutter_localization_automation.py class FlutterLocalizationAutomator *)
(*                                                                         *)
(* Text is modelled as a sequence of tokens.  A token is a Python string:  *)
(* either a word (letters, digits, underscore), one punctuation character, *)
(* or one of the fixed pieces of the lookup expression.  Concatenating the *)
(* tokens of a text gives the characters of the file, and Len(token) is    *)
(* the number of characters the token stands for.  Words are maximal, so a *)
(* substring test on characters that starts and ends at a quote agrees     *)
(* with the substring test on tokens.                                      *)
(*                                                                         *)
(* re.escape is modelled as Python 3.7 and later define it: a backslash is *)
(* put in front of every character that is special in a regular           *)
(* expression (the space and the parentheses among them), and quotes are   *)
(* left alone.                                                             *)
(*                                                                         *)
(* File-system operations succeed except for the failures the scripts      *)
(* handle and the design names: the snapshot copy (create_backup), a       *)
(* missing snapshot (restore_backup), a catalog document that does not     *)
(* parse, and the read or write of one source file.                        *)
(***************************************************************************)
EXTENDS Integers, Sequences, FiniteSets, TLC

VARIABLES
    dart,                 \* lib/**/*.dart : path -> [exists, text]
    arb,                  \* lib/l10n/*.arb : name -> [state, doc]
    backup,               \* backup_before_localization : [exists, dart, arb]
    pc,                   \* position of the running script
    applier,              \* the LocalizationApplier object: keys loaded, counters
    suggestions,          \* strings_to_localize.json as loaded by the run
    filtered_suggestions, \* the run's accepted suggestions
    min_confidence,       \* argument of apply_suggestions (tenths)
    max_changes,          \* argument of apply_suggestions
    fileIdx,              \* index of the next source file of the loop
    automator,            \* the FlutterLocalizationAutomator object
    run,                  \* record of the run in progress (history)
    rw,                   \* one file content under the rewriters and the extractor
    fn,                   \* one suggestion document under the filter and its users
    fx                    \* one source file under the fix-up scripts

vars == <<dart, arb, backup, pc, applier, suggestions, filtered_suggestions,
          min_confidence, max_changes, fileIdx, automator, run, rw, fn, fx>>

-----------------------------------------------------------------------------
(* Tokens *)

SQ == "'"
DQ == "\""
NL == "\n"
SP == " "
BSL == "\\"
MARKER == "AppLocalizations.of(context)"

\* Characters re.escape puts a backslash in front of (Python >= 3.7).
SpecialChars == {SP, NL, "(", ")", "[", "]", "{", "}", "?", "*", "+", "-",
                 "|", "^", "$", BSL, ".", "&", "~", "#"}

\* Pieces of the lookup expression that hold special characters.
CompositeTokens == {MARKER, "?.", "??"}

Whitespace == {SP, NL}

-----------------------------------------------------------------------------
(* Strings *)

\* The least element of a non-empty set of integers.
Min(S) == CHOOSE x \in S : \A y \in S : x <= y

RECURSIVE CharLenBetween(_, _, _)
CharLenBetween(text, lo, hi) ==
    IF lo > hi THEN 0
    ELSE IF lo = hi THEN Len(text[lo])
    ELSE LET mid == (lo + hi) \div 2
         IN  CharLenBetween(text, lo, mid) + CharLenBetween(text, mid + 1, hi)

\* len(text): the number of characters of a token sequence.
CharLen(text) == CharLenBetween(text, 1, Len(text))

\* text[i:] starts with pat (1-based token index i).
MatchAt(text, pat, i) ==
    /\ i >= 1
    /\ i + Len(pat) - 1 <= Len(text)
    /\ \A j \in 1..Len(pat) : text[i + j - 1] = pat[j]

\* Python: pat in text.
IsSubstr(pat, text) ==
    \E i \in 1..(Len(text) - Len(pat) + 1) : MatchAt(text, pat, i)

\* The places from i on where pat occurs in text.
Occurrences(text, pat, i) == {j \in i..Len(text) : MatchAt(text, pat, j)}

RECURSIVE ReplaceFrom(_, _, _, _)
ReplaceFrom(text, old, new, i) ==
    LET occ == Occurrences(text, old, i)
    IN  IF occ = {} THEN SubSeq(text, i, Len(text))
        ELSE SubSeq(text, i, Min(occ) - 1) \o new
             \o ReplaceFrom(text, old, new, Min(occ) + Len(old))

\* Python: text.replace(old, new), every non-overlapping occurrence, left to
\* right (old is never empty here).
StrReplace(text, old, new) == ReplaceFrom(text, old, new, 1)

RECURSIVE CountFrom(_, _, _)
CountFrom(text, pat, i) ==
    LET occ == Occurrences(text, pat, i)
    IN  IF occ = {} THEN 0 ELSE 1 + CountFrom(text, pat, Min(occ) + Len(pat))

\* Python: text.count(pat), non-overlapping.
StrCount(text, pat) == CountFrom(text, pat, 1)

\* Python: text.strip().
Strip(text) ==
    LET keep == {i \in 1..Len(text) : text[i] \notin Whitespace}
    IN  IF keep = {} THEN <<>>
        ELSE SubSeq(text, Min(keep), CHOOSE x \in keep : \A y \in keep : y <= x)

RECURSIVE re_escape(_)
\* Python: re.escape(text).
re_escape(text) ==
    IF text = <<>> THEN <<>>
    ELSE (IF Head(text) \in SpecialChars \cup CompositeTokens
          THEN <<BSL, Head(text)>>
          ELSE <<Head(text)>>) \o re_escape(Tail(text))

-----------------------------------------------------------------------------
(* Catalog documents (ARB files) *)

\* Names used as catalog keys.  '@' + name is the metadata key of name and
\* '@@locale' the locale tag.
LongKey == "settings_screen_notification_preferences_section_save_changes_label"
EdgeKey == "settings_screen_notification_preferences_section_save_changes_text"
BaseKeys ==
    {"locale", "save_button", "open_it", "old_key", "ok_label", LongKey, EdgeKey}

\* Python: f"@{key}".
AtKey(key) == "@" \o key

\* Python: key.startswith('@')  (which key.startswith('@@') implies).
StartsWithAt(key) == \E b \in BaseKeys : key = AtKey(b) \/ key = AtKey(AtKey(b))

StrEntry(key, text) == [key |-> key, str |-> TRUE, val |-> text]
MetaEntry(key, text) == [key |-> key, str |-> FALSE, val |-> text]

\* Python: key in arb_data.
HasKey(doc, key) == \E i \in 1..Len(doc) : doc[i].key = key

\* Python: arb_data[key] = entry (an existing key keeps its place).
DictSet(doc, entry) ==
    IF HasKey(doc, entry.key)
    THEN [i \in 1..Len(doc) |-> IF doc[i].key = entry.key THEN entry ELSE doc[i]]
    ELSE Append(doc, entry)

\* The translation keys of a document: not the '@' and '@@' pseudo-keys.
DocKeys(doc) == {doc[i].key : i \in {j \in 1..Len(doc) : ~StartsWithAt(doc[j].key)}}

AbsentArb == [state |-> "absent", doc |-> <<>>]
MalformedArb == [state |-> "malformed", doc |-> <<>>]
OkArb(doc) == [state |-> "ok", doc |-> doc]

\* load_existing_arb_keys: the keys of a parseable document; the empty set
\* for a missing file and, the exception being caught, for a malformed one.
load_existing_arb_keys(file) ==
    IF file.state = "ok" THEN DocKeys(file.doc) ELSE {}

-----------------------------------------------------------------------------
(* Suggestions *)

\* One entry of strings_to_localize.json.  hasConf is FALSE when the entry
\* has no 'confidence'; confidence is in tenths.
Suggestion(key, value, hasConf, confidence, widget_type, description) ==
    [key |-> key, value |-> value, hasConf |-> hasConf, confidence |-> confidence,
     widget_type |-> widget_type, description |-> description]

\* Python: data.get('confidence', 0.0).
GetConfidence(data) == IF data.hasConf THEN data.confidence ELSE 0

\* Tokens made of letters: those with a lowercase letter, and those whose
\* letters are all uppercase.  Every other token has no cased character.
LowerTokens == {"Save", "Open", "it", "count", "items", "const", "Text", "Hi"}
UpperTokens == {"OK", "X"}

\* Python: value.isupper().
IsUpper(value) ==
    /\ \A i \in 1..Len(value) : value[i] \notin LowerTokens
    /\ \E i \in 1..Len(value) : value[i] \in UpperTokens

\* The filter without its template rule.
Accepts_NoTemplate(data, minc, existing_en_keys) ==
    /\ ~(GetConfidence(data) < minc)
    /\ ~(CharLen(Strip(data.value)) < 3 /\ data.widget_type \notin {"button", "label"})
    /\ ~(IsUpper(data.value) /\ ~IsSubstr(<<SP>>, data.value))
    /\ ~(data.key \in existing_en_keys)

\* The filter without its rule for short values.
Accepts_NoShortRule(data, minc, existing_en_keys) ==
    /\ ~(GetConfidence(data) < minc)
    /\ ~(IsSubstr(<<"$", "{">>, data.value) \/ IsSubstr(<<"$">>, data.value))
    /\ ~(IsUpper(data.value) /\ ~IsSubstr(<<SP>>, data.value))
    /\ ~(data.key \in existing_en_keys)

\* The filter without its confidence rule.
Accepts_NoConfidence(data, minc, existing_en_keys) ==
    /\ ~(IsSubstr(<<"$", "{">>, data.value) \/ IsSubstr(<<"$">>, data.value))
    /\ ~(CharLen(Strip(data.value)) < 3 /\ data.widget_type \notin {"button", "label"})
    /\ ~(IsUpper(data.value) /\ ~IsSubstr(<<SP>>, data.value))
    /\ ~(data.key \in existing_en_keys)

\* The body of the loop of filter_high_confidence_suggestions: TRUE when the
\* suggestion reaches  filtered[key] = data.
Accepts(data, minc, existing_en_keys) ==
    /\ ~(GetConfidence(data) < minc)
    /\ ~(IsSubstr(<<"$", "{">>, data.value) \/ IsSubstr(<<"$">>, data.value))
    /\ ~(CharLen(Strip(data.value)) < 3 /\ data.widget_type \notin {"button", "label"})
    /\ ~(IsUpper(data.value) /\ ~IsSubstr(<<SP>>, data.value))
    /\ ~(data.key \in existing_en_keys)

filter_high_confidence_suggestions(sugg, minc, existing_en_keys) ==
    SelectSeq(sugg, LAMBDA data : Accepts(data, minc, existing_en_keys))

\* The limit keeping one suggestion more than max_changes.
LimitChanges_OneMore(filtered, maxc) ==
    IF Len(filtered) > maxc THEN SubSeq(filtered, 1, maxc + 1) ELSE filtered

\* dict(list(filtered.items())[:max_changes]) when there are more.
LimitChanges(filtered, maxc) ==
    IF Len(filtered) > maxc THEN SubSeq(filtered, 1, maxc) ELSE filtered

-----------------------------------------------------------------------------
(* LocalizationApplier.apply_localization_to_file *)

\* f"AppLocalizations.of(context)?.{key} ?? '{value}'"
Replacement(key, value) ==
    <<MARKER, "?.", key, SP, "??", SP, SQ>> \o value \o <<SQ>>

ConstText == <<"const", SP, "Text", "(">>
PlainText == <<"Text", "(">>

Quoted(q, value) == <<q>> \o value \o <<q>>

\* The six patterns, each through re.escape.
Patterns(value) ==
    << re_escape(Quoted(SQ, value)),
       re_escape(Quoted(DQ, value)),
       re_escape(ConstText \o <<SQ>> \o value \o <<SQ>>),
       re_escape(ConstText \o <<DQ>> \o value \o <<DQ>>),
       re_escape(PlainText \o <<SQ>> \o value \o <<SQ>>),
       re_escape(PlainText \o <<DQ>> \o value \o <<DQ>>) >>

\* content.replace(pattern, ...) of the first pattern found in content.
ReplaceWith(content, pattern, key, value) ==
    IF IsSubstr(ConstText, pattern)
    THEN LET new_pattern == StrReplace(pattern, ConstText, PlainText)
         IN  StrReplace(content, pattern,
                 StrReplace(StrReplace(new_pattern, Quoted(SQ, value),
                                       Replacement(key, value)),
                            Quoted(DQ, value), Replacement(key, value)))
    ELSE StrReplace(content, pattern, Replacement(key, value))

RECURSIVE FirstPattern(_, _, _)
\* for pattern in patterns: if pattern in content: ...; break
\* The index of the first pattern found in content, 0 when there is none.
FirstPattern(content, patterns, i) ==
    IF i > Len(patterns) THEN 0
    ELSE IF IsSubstr(patterns[i], content) THEN i
    ELSE FirstPattern(content, patterns, i + 1)

RECURSIVE ApplyReplacements(_, _, _, _)
\* The loop "for key, data in file_suggestions.items()".  data['confidence']
\* raises KeyError for an entry without one: the loop ends there.
ApplyReplacements(content, fs, i, changes) ==
    IF i > Len(fs) THEN [content |-> content, changes |-> changes, raised |-> FALSE]
    ELSE IF ~fs[i].hasConf
         THEN [content |-> content, changes |-> changes, raised |-> TRUE]
    ELSE LET pats == Patterns(fs[i].value)
             p == FirstPattern(content, pats, 1)
         IN  IF p = 0 THEN ApplyReplacements(content, fs, i + 1, changes)
             ELSE ApplyReplacements(
                      ReplaceWith(content, pats[p], fs[i].key, fs[i].value),
                      fs, i + 1, changes + 1)

\* The suggestions whose description holds the file's relative path.
FileSuggestions(sugg, relative_path) ==
    SelectSeq(sugg, LAMBDA data : IsSubstr(relative_path, data.description))

NoChange(file, localized) ==
    [file |-> file, ret |-> 0, localized |-> localized, modified |-> 0,
     failed |-> FALSE]

\* apply_localization_to_file(file_path, suggestions) on a file whose content
\* is file and whose path relative to the project root is relative_path.
\* io is what the file system does: "ok", "read_error" or "write_error".
\* Result: the file afterwards, the value returned, and what was added to
\* strings_localized and files_modified.
Applier_apply_localization_to_file(file, relative_path, sugg, io) ==
    IF ~file.exists THEN NoChange(file, 0)
    ELSE IF io = "read_error" THEN [NoChange(file, 0) EXCEPT !.failed = TRUE]
    ELSE LET fs == FileSuggestions(sugg, relative_path)
             r == ApplyReplacements(file.text, fs, 1, 0)
         IN  IF fs = <<>> THEN NoChange(file, 0)
             ELSE IF r.raised
                  THEN [NoChange(file, r.changes) EXCEPT !.failed = TRUE]
             ELSE IF r.changes > 0
                  THEN IF io = "write_error"
                       THEN [NoChange(file, r.changes) EXCEPT !.failed = TRUE]
                       ELSE [file |-> [exists |-> TRUE, text |-> r.content],
                             ret |-> r.changes, localized |-> r.changes,
                             modified |-> 1, failed |-> FALSE]
             ELSE NoChange(file, 0)

-----------------------------------------------------------------------------
(* LocalizationApplier.add_keys_to_arb_file *)

RECURSIVE AddKeys(_, _, _, _, _)
\* The loop "for key, data in suggestions.items()" over arb_data.
AddKeys(doc, sugg, locale, i, added) ==
    IF i > Len(sugg) THEN [doc |-> doc, keys_added |-> added]
    ELSE IF HasKey(doc, sugg[i].key) THEN AddKeys(doc, sugg, locale, i + 1, added)
    ELSE LET value == IF locale = "ru"
                      THEN <<"[RU]", SP>> \o sugg[i].value
                      ELSE sugg[i].value
             d1 == DictSet(doc, StrEntry(sugg[i].key, value))
             d2 == DictSet(d1, MetaEntry(AtKey(sugg[i].key),
                               <<"Auto-generated from", SP>> \o sugg[i].description))
         IN  AddKeys(d2, sugg, locale, i + 1, added + 1)

\* add_keys_to_arb_file(arb_path, suggestions, locale): the file afterwards
\* and what was added to self.keys_added.  json.load of a malformed document
\* raises; the exception is caught and nothing is written.
add_keys_to_arb_file(file, sugg, locale) ==
    IF file.state = "malformed" THEN [file |-> file, keys_added |-> 0]
    ELSE LET arb_data == IF file.state = "ok" THEN file.doc
                         ELSE <<StrEntry("@@locale", <<locale>>)>>
             r == AddKeys(arb_data, sugg, locale, 1, 0)
         IN  IF r.keys_added > 0
             THEN [file |-> OkArb(r.doc), keys_added |-> r.keys_added]
             ELSE [file |-> file, keys_added |-> 0]

-----------------------------------------------------------------------------
(* FlutterLocalizationAutomator *)

\* load_translations: <<english_translations, target_translations>>.  A
\* missing or malformed English document ends it before the target is read;
\* a dictionary that was not loaded stays {}.
load_translations(a) ==
    IF a["app_en.arb"].state # "ok" THEN <<(<<>>), (<<>>)>>
    ELSE <<a["app_en.arb"].doc,
           IF a["app_ru.arb"].state = "ok" THEN a["app_ru.arb"].doc ELSE <<>> >>

RECURSIVE MappingFrom(_, _, _)
\* The loop of create_english_to_key_mapping: mapping[clean_value] = key for
\* the string entries whose key does not start with '@'.
MappingFrom(doc, i, mapping) ==
    IF i > Len(doc) THEN mapping
    ELSE LET e == doc[i]
             clean_value == Strip(e.val)
         IN  IF e.str /\ ~StartsWithAt(e.key) /\ clean_value # <<>>
             THEN MappingFrom(doc, i + 1,
                      IF \E j \in 1..Len(mapping) : mapping[j].text = clean_value
                      THEN [j \in 1..Len(mapping) |->
                               IF mapping[j].text = clean_value
                               THEN [text |-> clean_value, key |-> e.key]
                               ELSE mapping[j]]
                      ELSE Append(mapping, [text |-> clean_value, key |-> e.key]))
             ELSE MappingFrom(doc, i + 1, mapping)

create_english_to_key_mapping(english_translations) ==
    MappingFrom(english_translations, 1, <<>>)

\* content.split('\n'): the pieces between the newlines.
Split(text) ==
    LET nl == {i \in 1..Len(text) : text[i] = NL}
        \* the k-th newline; 0 before the first, Len + 1 after the last
        at(k) == IF k = 0 THEN 0
                 ELSE IF k > Cardinality(nl) THEN Len(text) + 1
                 ELSE CHOOSE p \in nl : Cardinality({q \in nl : q < p}) = k - 1
    IN  [k \in 1..(Cardinality(nl) + 1) |-> SubSeq(text, at(k - 1) + 1, at(k) - 1)]

RECURSIVE Join(_)
\* '\n'.join(lines)
Join(lines) ==
    IF Len(lines) = 0 THEN <<>>
    ELSE IF Len(lines) = 1 THEN lines[1]
    ELSE lines[1] \o <<NL>> \o Join(Tail(lines))

\* f"AppLocalizations.of(context)?.{key} ?? {quote}{english_text}{quote}"
AutoReplacement(key, quote, english_text) ==
    <<MARKER, "?.", key, SP, "??", SP>> \o Quoted(quote, english_text)

\* One pattern of one catalog entry over the whole content: re.sub on every
\* line that holds the quoted text and no lookup yet.  The pattern is the
\* quote, re.escape(english_text) as a group, and the quote: as a regular
\* expression it matches exactly the quoted text.
SubLines(content, key, quote, english_text) ==
    LET pat == Quoted(quote, english_text)
        lines == Split(content)
        hit(line) == IsSubstr(pat, line) /\ ~IsSubstr(<<MARKER>>, line)
        new_lines == [i \in 1..Len(lines) |->
                        IF hit(lines[i])
                        THEN StrReplace(lines[i], pat,
                                        AutoReplacement(key, quote, english_text))
                        ELSE lines[i]]
        RECURSIVE Total(_)
        Total(i) == IF i > Len(lines) THEN 0
                    ELSE (IF hit(lines[i]) THEN StrCount(lines[i], pat) ELSE 0)
                         + Total(i + 1)
    IN  IF IsSubstr(pat, content)
        THEN [content |-> Join(new_lines), changes |-> Total(1)]
        ELSE [content |-> content, changes |-> 0]

RECURSIVE AutoReplaceAll(_, _, _, _)
\* The loop "for english_text, key in english_to_key.items()", the single
\* quoted pattern before the double quoted one.
AutoReplaceAll(content, mapping, i, changes) ==
    IF i > Len(mapping) THEN [content |-> content, changes |-> changes]
    ELSE LET r1 == SubLines(content, mapping[i].key, SQ, mapping[i].text)
             r2 == SubLines(r1.content, mapping[i].key, DQ, mapping[i].text)
         IN  AutoReplaceAll(r2.content, mapping, i + 1,
                            changes + r1.changes + r2.changes)

\* The same without the test of dry_run before the write.
Automator_apply_localization_to_file_NoDryRun(file, english_translations, dry_run, io) ==
    IF ~file.exists \/ io = "read_error"
    THEN [file |-> file, ret |-> 0, failed |-> file.exists]
    ELSE LET r == AutoReplaceAll(file.text,
                      create_english_to_key_mapping(english_translations), 1, 0)
         IN  IF r.changes > 0
             THEN IF io = "write_error"
                  THEN [file |-> file, ret |-> 0, failed |-> TRUE]
                  ELSE [file |-> [exists |-> TRUE, text |-> r.content],
                        ret |-> r.changes, failed |-> FALSE]
             ELSE [file |-> file, ret |-> r.changes, failed |-> FALSE]

\* apply_localization_to_file(file_path, dry_run): the file afterwards and
\* the value returned.  io is "ok", "read_error" or "write_error".
Automator_apply_localization_to_file(file, english_translations, dry_run, io) ==
    IF ~file.exists \/ io = "read_error"
    THEN [file |-> file, ret |-> 0, failed |-> file.exists]
    ELSE LET r == AutoReplaceAll(file.text,
                      create_english_to_key_mapping(english_translations), 1, 0)
         IN  IF r.changes > 0 /\ ~dry_run
             THEN IF io = "write_error"
                  THEN [file |-> file, ret |-> 0, failed |-> TRUE]
                  ELSE [file |-> [exists |-> TRUE, text |-> r.content],
                        ret |-> r.changes, failed |-> FALSE]
             ELSE [file |-> file, ret |-> r.changes, failed |-> FALSE]

-----------------------------------------------------------------------------
(* FlutterLocalizationAutomator.extract_strings_from_file *)

\* Tokens by the character classes the skip patterns name.
DigitTokens == {"42"}
UpperConstTokens == {"OK", "X", "API_KEY"}
CamelTokens == {"it", "count", "items", "const", "static", "t"}
UrlPrefixTokens == {"http://", "https://"}
EmailTokens == {"a@b.io"}
PhoneTokens == DigitTokens \cup Whitespace \cup {"-", "+", "(", ")"}

\* should_skip_string(text)
should_skip_string(text) ==
    LET st == Strip(text)
    IN  \/ CharLen(st) < 2
        \/ st # <<>> /\ st[1] \in UrlPrefixTokens
        \/ st # <<>> /\ \A i \in 1..Len(st) : st[i] \in DigitTokens
        \/ st # <<>> /\ \A i \in 1..Len(st) : st[i] \in PhoneTokens
        \/ Len(st) = 1 /\ st[1] \in EmailTokens
        \/ /\ Len(st) >= 3
           /\ st[1] = "$" /\ st[2] = "{" /\ st[Len(st)] = "}"
           /\ \A i \in 3..(Len(st) - 1) : st[i] # NL
        \/ Len(st) = 1 /\ st[1] \in UpperConstTokens
        \/ Len(st) = 1 /\ st[1] \in CamelTokens

RECURSIVE ClosingQuote(_, _, _)
\* The body of a quoted literal read from token j: characters other than
\* the quote and the backslash, and backslash escapes of one character that
\* is not a newline.  The index of the closing quote, 0 when there is none.
ClosingQuote(content, q, j) ==
    IF j > Len(content) THEN 0
    ELSE IF content[j] = q THEN j
    ELSE IF content[j] = BSL
         THEN IF j + 1 > Len(content) \/ content[j + 1] = NL THEN 0
              ELSE ClosingQuote(content, q, j + 2)
    ELSE ClosingQuote(content, q, j + 1)

RECURSIVE FindLiterals(_, _, _)
\* re.finditer of the pattern of quote q from token i: the matches, left to
\* right and not overlapping, as [start, end] token indexes of the quotes.
\* A quote with no closing quote starts no match and the search goes on
\* behind it.
FindLiterals(content, q, i) ==
    LET quotes == {j \in i..Len(content) : content[j] = q}
    IN  IF quotes = {} THEN <<>>
        ELSE LET s == Min(quotes)
                 c == ClosingQuote(content, q, s + 1)
             IN  IF c = 0 THEN FindLiterals(content, q, s + 1)
                 ELSE <<[start |-> s, end |-> c, quote |-> q]>>
                      \o FindLiterals(content, q, c + 1)

LookbackWindow == 100

\* A window of half the size.
AlreadyLocalized_HalfWindow(content, start) ==
    \E k \in 1..(start - 1) :
        /\ content[k] = MARKER
        /\ 2 * CharLen(SubSeq(content, k, start - 1)) <= LookbackWindow

\* 'AppLocalizations.of(context)' in content[max(0, start - 100):start]
AlreadyLocalized(content, start) ==
    \E k \in 1..(start - 1) :
        /\ content[k] = MARKER
        /\ CharLen(SubSeq(content, k, start - 1)) <= LookbackWindow

\* The matches extract_strings_from_file keeps, of both patterns in turn.
ExtractMatches(content) ==
    SelectSeq(FindLiterals(content, SQ, 1) \o FindLiterals(content, DQ, 1),
              LAMBDA m : /\ ~AlreadyLocalized(content, m.start)
                         /\ ~should_skip_string(
                                SubSeq(content, m.start + 1, m.end - 1)))

\* extract_strings_from_file: (text, line_num) of each match kept; [] when
\* the file cannot be read.
extract_strings_from_file(file, io) ==
    IF ~file.exists \/ io = "read_error" THEN <<>>
    ELSE LET ms == ExtractMatches(file.text)
         IN  [i \in 1..Len(ms) |->
                <<SubSeq(file.text, ms[i].start + 1, ms[i].end - 1),
                  StrCount(SubSeq(file.text, 1, ms[i].start - 1), <<NL>>) + 1>>]

-----------------------------------------------------------------------------
(* The project tree and the snapshot *)

\* The source files, in the order of lib_path.rglob('*.dart'), with their
\* path relative to the project root.
DartOrder == <<"lib/a.dart", "lib/screens/b.dart">>
DartFiles == {DartOrder[i] : i \in 1..Len(DartOrder)}
RelPath(path) ==
    IF path = "lib/a.dart" THEN <<"lib/", "a.dart">>
    ELSE <<"lib/", "screens/", "b.dart">>

ArbFiles == {"app_en.arb", "app_ru.arb"}

NoFile == [exists |-> FALSE, text |-> <<>>]
File(text) == [exists |-> TRUE, text |-> text]

\* The content of lib: the source files and lib/l10n.
Tree(d, a) == [dart |-> d, arb |-> a]

NoBackup == [exists |-> FALSE, dart |-> [f \in DartFiles |-> NoFile],
             arb |-> [f \in ArbFiles |-> AbsentArb]]

\* An order in which shutil.copytree may copy the files of lib.
CopyOrder == <<"lib/a.dart", "app_en.arb", "app_ru.arb", "lib/screens/b.dart">>

\* backup_path after copytree copied the first n files of CopyOrder.
Copied(tree, n) ==
    LET done == {CopyOrder[i] : i \in 1..n}
    IN  [exists |-> TRUE,
         dart |-> [f \in DartFiles |-> IF f \in done THEN tree.dart[f] ELSE NoFile],
         arb |-> [f \in ArbFiles |-> IF f \in done THEN tree.arb[f] ELSE AbsentArb]]

\* create_backup logging its exception without raising it again.
create_backup_Swallow(tree, old, outcome, n) ==
    IF outcome = "ok"
    THEN [backup |-> Copied(tree, Len(CopyOrder)), raised |-> FALSE]
    ELSE IF outcome = "rmtree_error"
    THEN [backup |-> old, raised |-> FALSE]
    ELSE IF outcome = "mkdir_error"
    THEN [backup |-> NoBackup, raised |-> FALSE]
    ELSE [backup |-> Copied(tree, n), raised |-> FALSE]

\* create_backup with the file system doing outcome: "ok", or a failure of
\* rmtree ("rmtree_error": the old snapshot is still there), of copytree
\* before it made the directory ("mkdir_error") or after it copied n files
\* ("copy_error"): the exception is logged and raised again.
create_backup(tree, old, outcome, n) ==
    IF outcome = "ok"
    THEN [backup |-> Copied(tree, Len(CopyOrder)), raised |-> FALSE]
    ELSE IF outcome = "rmtree_error"
    THEN [backup |-> old, raised |-> TRUE]
    ELSE IF outcome = "mkdir_error"
    THEN [backup |-> NoBackup, raised |-> TRUE]
    ELSE [backup |-> Copied(tree, n), raised |-> TRUE]

\* restore_backup copying the snapshot over lib without removing lib first.
restore_backup_NoRmtree(tree, bk) ==
    IF ~bk.exists THEN [tree |-> tree, restored |-> FALSE]
    ELSE [tree |-> Tree([f \in DartFiles |-> IF bk.dart[f].exists THEN bk.dart[f]
                                             ELSE tree.dart[f]],
                        [f \in ArbFiles |-> IF bk.arb[f].state # "absent" THEN bk.arb[f]
                                            ELSE tree.arb[f]]),
          restored |-> TRUE]

\* restore_backup without the test that the snapshot exists: lib is removed
\* and copytree then finds nothing to copy.
restore_backup_Unchecked(tree, bk) ==
    IF ~bk.exists
    THEN [tree |-> Tree([f \in DartFiles |-> NoFile], [f \in ArbFiles |-> AbsentArb]),
          restored |-> FALSE]
    ELSE [tree |-> Tree(bk.dart, bk.arb), restored |-> TRUE]

\* restore_backup: nothing without a snapshot; otherwise lib is removed and
\* the snapshot copied in its place.
restore_backup(tree, bk) ==
    IF ~bk.exists THEN [tree |-> tree, restored |-> FALSE]
    ELSE [tree |-> Tree(bk.dart, bk.arb), restored |-> TRUE]

-----------------------------------------------------------------------------
(* Inputs *)

MaxRuns == 1          \* runs of the two scripts in one behaviour
MaxCalls == 2         \* runs in one behaviour of the project of InitTwice

LinePlain == <<"Text", "(", SQ, "Save", SQ, ")", NL>>
LineConst == <<"const", SP, "Text", "(", SQ, "Save", SQ, ")", NL>>
LineStatic ==
    <<"static", SP, "const", SP, "String", SP, "t", SP, "=", SP, SQ, "Save", SQ, ";", NL>>
LineDouble == <<"Text", "(", DQ, "Save", DQ, ")", NL>>
LineOpen == <<"Text", "(", SQ, "Open", SP, "it", SQ, ")", NL>>

SourcesOf(path) ==
    IF path = "lib/a.dart"
    THEN {LineConst \o LineDouble, LineOpen \o LinePlain}
    ELSE {LinePlain, LineStatic}

DocLocale(locale) == <<StrEntry("@@locale", <<locale>>)>>
DocOld(locale) ==
    DocLocale(locale) \o
    <<StrEntry("old_key", <<"Save">>), MetaEntry("@old_key", <<"by hand">>)>>

LocaleOf(name) == IF name = "app_en.arb" THEN "en" ELSE "ru"

ArbStates(name) ==
    IF name = "app_en.arb"
    THEN {MalformedArb, OkArb(DocLocale("en")), OkArb(DocOld("en"))}
    ELSE {AbsentArb, MalformedArb, OkArb(DocLocale("ru"))}

InA == <<"lib/", "a.dart", ":3">>
InB == <<"lib/", "screens/", "b.dart", ":7">>

SaveA == Suggestion("save_button", <<"Save">>, TRUE, 9, "button", InA)
SaveB == Suggestion("save_button", <<"Save">>, TRUE, 9, "button", InB)
OpenA == Suggestion("open_it", <<"Open", SP, "it">>, TRUE, 9, "label", InA)
LowB == Suggestion("ok_label", <<"Save">>, TRUE, 5, "button", InB)
NoConfA == Suggestion("ok_label", <<"Save">>, FALSE, 0, "button", InA)
OkA == Suggestion("ok_label", <<"Save">>, TRUE, 9, "button", InA)
OldB == Suggestion("old_key", <<"Save">>, TRUE, 10, "button", InB)

\* The documents strings_to_localize.json may hold; <<>> also stands for a
\* missing or unreadable file, for which load_suggestions returns {}.
SuggestionDocs ==
    { <<>>, <<SaveA>>, <<SaveA, LowB>>, <<OpenA, SaveB>>, <<NoConfA, SaveB>>,
      <<OldB, OpenA>> }

\* The arguments of apply_suggestions: <<min_confidence, max_changes>>; the
\* first are the defaults of the command line.
RunArgs == {<<8, 50>>, <<0, 50>>, <<8, 1>>}
FileOutcomes == {"ok", "read_error", "write_error"}

-----------------------------------------------------------------------------
(* The session: LocalizationApplier *)

\* __init__: the keys of both catalogs are loaded once, the counters are 0.
NewApplier(a) ==
    [existing_en_keys |-> load_existing_arb_keys(a["app_en.arb"]),
     existing_ru_keys |-> load_existing_arb_keys(a["app_ru.arb"]),
     files_modified |-> 0, strings_localized |-> 0, keys_added |-> 0]

\* No automator process is running.
NoAutomator ==
    [english_translations |-> <<>>, target_translations |-> <<>>,
     dry_run |-> FALSE, files_processed |-> 0, files_modified |-> 0,
     total_changes |-> 0]

\* FlutterLocalizationAutomator.__init__
NewAutomator(a, dry_run) ==
    [english_translations |-> load_translations(a)[1],
     target_translations |-> load_translations(a)[2],
     dry_run |-> dry_run, files_processed |-> 0, files_modified |-> 0,
     total_changes |-> 0]

\* The filter is not under study on its own.
NoCall ==
    [stage |-> "none", sugg |-> <<>>, minc |-> 0, maxc |-> 0, existing |-> {},
     locale |-> "en", file |-> AbsentArb, text |-> <<>>, filtered |-> <<>>,
     limited |-> <<>>, applied |-> <<>>, ret |-> 0, out |-> AbsentArb,
     keys_added |-> 0]

\* The fix-up scripts are not under study on their own.
NoFix ==
    [tool |-> "none", path |-> <<>>, start |-> <<>>, prev |-> <<>>,
     text |-> <<>>, rets |-> <<>>, clean |-> TRUE]

\* The rewriters are not under study on their own.
NoRewrite ==
    [engine |-> "none", text |-> <<>>, prev |-> <<>>, sugg |-> <<>>,
     english |-> <<>>, dry_run |-> FALSE, applied |-> 0, ret |-> 0,
     clean |-> TRUE, extracted |-> FALSE, found |-> <<>>, result |-> <<>>]

\* The snapshot an earlier run left in lib_backup: of the project as it was
\* before lib/screens/b.dart and the catalogs were created.
OldBackup ==
    [exists |-> TRUE,
     dart |-> [f \in DartFiles |-> IF f = "lib/a.dart" THEN File(LinePlain) ELSE NoFile],
     arb |-> [f \in ArbFiles |-> AbsentArb]]

NoRun(d, a) ==
    [calls |-> 0, limit |-> MaxRuns, last |-> "init", start |-> Tree(d, a),
     snapshot |-> FALSE, visited |-> {}, failed |-> {}, arb_updated |-> FALSE,
     summary |-> FALSE]

Init ==
    /\ dart \in [DartFiles -> {File(<<>>)}] \cup
                {d \in [DartFiles -> {File(t) : t \in UNION {SourcesOf(f) : f \in DartFiles}}] :
                    \A f \in DartFiles : d[f].text \in SourcesOf(f)}
    /\ dart["lib/a.dart"].text # <<>>
    /\ arb \in {a \in [ArbFiles -> UNION {ArbStates(f) : f \in ArbFiles}] :
                    \A f \in ArbFiles : a[f] \in ArbStates(f)}
    /\ backup \in {NoBackup, OldBackup}
    /\ pc = "ready"
    /\ applier = NewApplier(arb)
    /\ suggestions = <<>>
    /\ filtered_suggestions = <<>>
    /\ min_confidence = 8
    /\ max_changes = 50
    /\ fileIdx = 0
    /\ automator = NoAutomator
    /\ run = NoRun(dart, arb)
    /\ rw = NoRewrite
    /\ fn = NoCall
    /\ fx = NoFix

\* main() of a new process: LocalizationApplier().
Construct ==
    /\ pc \in {"ready", "aborted"}
    /\ run.last # "init"
    /\ pc' = "ready"
    /\ applier' = NewApplier(arb)
    /\ run' = [run EXCEPT !.last = "init"]
    /\ UNCHANGED <<rw, fn, fx, dart, arb, backup, suggestions, filtered_suggestions,
                   min_confidence, max_changes, fileIdx, automator>>

\* apply_suggestions(min_confidence, max_changes), up to the end of
\* create_backup; its exception leaves apply_suggestions.
ApplyStart ==
    /\ pc = "ready"
    /\ run.calls < run.limit
    /\ \E args \in RunArgs,
          outcome \in {"ok", "rmtree_error", "mkdir_error", "copy_error"},
          n \in 0..(Len(CopyOrder) - 1) :
          LET r == create_backup(Tree(dart, arb), backup, outcome, n)
          IN  /\ outcome = "rmtree_error" => backup.exists
              /\ outcome # "copy_error" => n = 0
              /\ min_confidence' = IF r.raised THEN 8 ELSE args[1]
              /\ max_changes' = IF r.raised THEN 50 ELSE args[2]
              /\ backup' = r.backup
              /\ pc' = IF r.raised THEN "aborted" ELSE "load_suggestions"
              /\ run' = [calls |-> run.calls + 1, limit |-> run.limit,
                         last |-> "create_backup",
                         start |-> Tree(dart, arb), snapshot |-> ~r.raised,
                         visited |-> {}, failed |-> {}, arb_updated |-> FALSE,
                         summary |-> FALSE]
    /\ suggestions' = <<>>
    /\ filtered_suggestions' = <<>>
    /\ fileIdx' = 0
    /\ UNCHANGED <<rw, fn, fx, dart, arb, applier, automator>>

\* load_suggestions, and the return of apply_suggestions when it is empty.
LoadSuggestions ==
    /\ pc = "load_suggestions"
    /\ \E doc \in SuggestionDocs :
          /\ suggestions' = doc
          /\ pc' = IF doc = <<>> THEN "return" ELSE "filter"
          /\ run' = [run EXCEPT !.last = "load_suggestions"]
    /\ UNCHANGED <<rw, fn, fx, dart, arb, backup, applier, filtered_suggestions,
                   min_confidence, max_changes, fileIdx, automator>>

\* filter_high_confidence_suggestions and the max_changes limit.
FilterSuggestions ==
    /\ pc = "filter"
    /\ filtered_suggestions' =
          LimitChanges(filter_high_confidence_suggestions(
                           suggestions, min_confidence, applier.existing_en_keys),
                       max_changes)
    /\ pc' = "files"
    /\ fileIdx' = 1
    /\ run' = [run EXCEPT !.last = "filter"]
    /\ UNCHANGED <<rw, fn, fx, dart, arb, backup, applier, suggestions, min_confidence,
                   max_changes, automator>>

\* The loop letting the exception of one file leave apply_suggestions.
ProcessFile_Abort ==
    /\ pc = "files"
    /\ fileIdx <= Len(DartOrder)
    /\ \E io \in FileOutcomes :
          LET path == DartOrder[fileIdx]
              r == Applier_apply_localization_to_file(
                       dart[path], RelPath(path), filtered_suggestions, io)
          IN  /\ dart' = [dart EXCEPT ![path] = r.file]
              /\ applier' = [applier EXCEPT
                    !.strings_localized = @ + r.localized,
                    !.files_modified = @ + r.modified]
              /\ run' = [run EXCEPT !.last = "file",
                    !.visited = @ \cup {path},
                    !.failed = IF r.failed THEN @ \cup {path} ELSE @]
              /\ pc' = IF r.failed THEN "aborted" ELSE pc
    /\ fileIdx' = fileIdx + 1
    /\ UNCHANGED <<rw, fn, fx, arb, backup, suggestions, filtered_suggestions,
                   min_confidence, max_changes, automator>>

\* One iteration of "for dart_file in dart_files".
ProcessFile ==
    /\ pc = "files"
    /\ fileIdx <= Len(DartOrder)
    /\ \E io \in FileOutcomes :
          LET path == DartOrder[fileIdx]
              r == Applier_apply_localization_to_file(
                       dart[path], RelPath(path), filtered_suggestions, io)
          IN  /\ dart' = [dart EXCEPT ![path] = r.file]
              /\ applier' = [applier EXCEPT
                    !.strings_localized = @ + r.localized,
                    !.files_modified = @ + r.modified]
              /\ run' = [run EXCEPT !.last = "file",
                    !.visited = @ \cup {path},
                    !.failed = IF r.failed THEN @ \cup {path} ELSE @]
    /\ fileIdx' = fileIdx + 1
    /\ UNCHANGED <<rw, fn, fx, arb, backup, pc, suggestions, filtered_suggestions,
                   min_confidence, max_changes, automator>>

\* add_keys_to_arb called inside the loop, after each file.
AddKeysToArb_PerFile ==
    /\ pc = "files"
    /\ LET en == add_keys_to_arb_file(arb["app_en.arb"], filtered_suggestions, "en")
           ru == add_keys_to_arb_file(arb["app_ru.arb"], filtered_suggestions, "ru")
       IN  /\ arb' = [arb EXCEPT !["app_en.arb"] = en.file, !["app_ru.arb"] = ru.file]
           /\ applier' = [applier EXCEPT
                 !.keys_added = @ + en.keys_added + ru.keys_added]
    /\ pc' = IF fileIdx > Len(DartOrder) THEN "summary" ELSE pc
    /\ run' = [run EXCEPT !.last = "add_keys_to_arb",
                          !.arb_updated = fileIdx > Len(DartOrder)]
    /\ UNCHANGED <<rw, fn, fx, dart, backup, suggestions, filtered_suggestions, min_confidence,
                   max_changes, fileIdx, automator>>

\* add_keys_to_arb: the English catalog, then the Russian one.
AddKeysToArb ==
    /\ pc = "files"
    /\ fileIdx > Len(DartOrder)
    /\ LET en == add_keys_to_arb_file(arb["app_en.arb"], filtered_suggestions, "en")
           ru == add_keys_to_arb_file(arb["app_ru.arb"], filtered_suggestions, "ru")
       IN  /\ arb' = [arb EXCEPT !["app_en.arb"] = en.file, !["app_ru.arb"] = ru.file]
           /\ applier' = [applier EXCEPT
                 !.keys_added = @ + en.keys_added + ru.keys_added]
    /\ pc' = "summary"
    /\ run' = [run EXCEPT !.last = "add_keys_to_arb", !.arb_updated = TRUE]
    /\ UNCHANGED <<rw, fn, fx, dart, backup, suggestions, filtered_suggestions, min_confidence,
                   max_changes, fileIdx, automator>>

\* The summary is logged.
Summary ==
    /\ pc = "summary"
    /\ pc' = "return"
    /\ run' = [run EXCEPT !.last = "summary", !.summary = TRUE]
    /\ UNCHANGED <<rw, fn, fx, dart, arb, backup, applier, suggestions, filtered_suggestions,
                   min_confidence, max_changes, fileIdx, automator>>

\* apply_suggestions returns: its arguments and local variables are gone.
Return ==
    /\ pc = "return"
    /\ pc' = "ready"
    /\ suggestions' = <<>>
    /\ filtered_suggestions' = <<>>
    /\ min_confidence' = 8
    /\ max_changes' = 50
    /\ fileIdx' = 0
    /\ run' = [run EXCEPT !.last = "return", !.visited = {}, !.failed = {},
                          !.arb_updated = FALSE, !.summary = FALSE]
    /\ UNCHANGED <<rw, fn, fx, dart, arb, backup, applier, automator>>

\* restore_backup.
RestoreBackup ==
    /\ pc = "ready"
    /\ LET r == restore_backup(Tree(dart, arb), backup)
       IN  /\ dart' = r.tree.dart
           /\ arb' = r.tree.arb
           /\ run' = [run EXCEPT !.last = IF r.restored THEN "restore_backup"
                                          ELSE "restore_no_backup"]
    /\ UNCHANGED <<rw, fn, fx, backup, pc, applier, suggestions, filtered_suggestions,
                   min_confidence, max_changes, fileIdx, automator>>

-----------------------------------------------------------------------------
(* The other script: FlutterLocalizationAutomator.run_localization *)

\* main(): the automator is built and run_localization(dry_run) starts; it
\* returns at once without English translations.
AutoStart ==
    /\ pc = "ready"
    /\ run.calls < run.limit
    /\ \E dry_run \in BOOLEAN :
          LET a == NewAutomator(arb, dry_run)
              stop == a.english_translations = <<>>
          IN  /\ automator' = IF stop THEN NoAutomator ELSE a
              /\ pc' = IF stop THEN "ready" ELSE "auto_files"
              /\ fileIdx' = IF stop THEN 0 ELSE 1
              /\ run' = [calls |-> run.calls + 1, limit |-> run.limit,
                         last |-> IF stop THEN "auto_stop" ELSE "auto_start",
                         start |-> Tree(dart, arb), snapshot |-> FALSE,
                         visited |-> {}, failed |-> {}, arb_updated |-> FALSE,
                         summary |-> FALSE]
    /\ UNCHANGED <<rw, fn, fx, dart, arb, backup, applier, suggestions, filtered_suggestions,
                   min_confidence, max_changes>>

\* One iteration of "for file_path in dart_files".
AutoFile ==
    /\ pc = "auto_files"
    /\ fileIdx <= Len(DartOrder)
    /\ \E io \in FileOutcomes :
          LET path == DartOrder[fileIdx]
              r == Automator_apply_localization_to_file(
                       dart[path], automator.english_translations,
                       automator.dry_run, io)
          IN  /\ dart' = [dart EXCEPT ![path] = r.file]
              /\ automator' = [automator EXCEPT
                    !.files_processed = @ + 1,
                    !.files_modified = @ + (IF r.ret > 0 THEN 1 ELSE 0),
                    !.total_changes = @ + r.ret]
              /\ run' = [run EXCEPT !.last = "auto_file",
                    !.visited = @ \cup {path},
                    !.failed = IF r.failed THEN @ \cup {path} ELSE @]
    /\ fileIdx' = fileIdx + 1
    /\ UNCHANGED <<rw, fn, fx, arb, backup, pc, applier, suggestions, filtered_suggestions,
                   min_confidence, max_changes>>

\* print_summary
AutoSummary ==
    /\ pc = "auto_files"
    /\ fileIdx > Len(DartOrder)
    /\ pc' = "auto_return"
    /\ run' = [run EXCEPT !.last = "auto_summary", !.summary = TRUE]
    /\ UNCHANGED <<rw, fn, fx, dart, arb, backup, applier, suggestions, filtered_suggestions,
                   min_confidence, max_changes, fileIdx, automator>>

\* run_localization returns and the process ends.
AutoReturn ==
    /\ pc = "auto_return"
    /\ pc' = "ready"
    /\ automator' = NoAutomator
    /\ fileIdx' = 0
    /\ run' = [run EXCEPT !.last = "auto_return", !.visited = {}, !.failed = {},
                          !.summary = FALSE]
    /\ UNCHANGED <<rw, fn, fx, dart, arb, backup, applier, suggestions, filtered_suggestions,
                   min_confidence, max_changes>>

Next ==
    \/ Construct
    \/ ApplyStart
    \/ LoadSuggestions
    \/ FilterSuggestions
    \/ ProcessFile
    \/ AddKeysToArb
    \/ Summary
    \/ Return
    \/ RestoreBackup
    \/ AutoStart
    \/ AutoFile
    \/ AutoSummary
    \/ AutoReturn

Spec == Init /\ [][Next]_vars


-----------------------------------------------------------------------------
(* The rewriters and the extractor on one file content *)

MaxApply == 2         \* applications of a rewriter to one content

LineField ==
    <<"final", SP, "String", SP, "t", SP, "=", SP, SQ, "Save", SQ, ";", NL>>
LineOther == <<"Text", "(", SQ, "Cancel", SQ, ")", NL>>
\* A line either rewriter has converted before.
LineConverted(key) == <<"Text", "(">> \o Replacement(key, <<"Save">>) \o <<")", NL>>

RewriteTexts ==
    { LinePlain, LineConst, LineStatic, LineField, LineOpen \o LinePlain,
      LineConst \o LineDouble, LineDouble \o LineOther,
      LineConverted("save_button") \o LineOther, LineConverted(EdgeKey),
      LineConverted(LongKey) }

\* The accepted suggestions of lib/a.dart handed to the applier.
RewriteSuggestions == { <<SaveA>>, <<OpenA, SaveA>>, <<NoConfA>>, <<SaveA, OkA>> }

\* The English catalogs the automator is built from.
DocKey(key) == DocLocale("en") \o <<StrEntry(key, <<"Save">>)>>
RewriteCatalogs ==
    { DocOld("en"), DocKey(EdgeKey), DocKey(LongKey),
      DocKey("save_button") \o <<StrEntry("open_it", <<"Open", SP, "it">>)>> }

InitRewrite ==
    /\ dart = [f \in DartFiles |-> File(<<>>)]
    /\ arb = [f \in ArbFiles |-> AbsentArb]
    /\ backup = NoBackup
    /\ pc = "ready"
    /\ applier = NewApplier(arb)
    /\ suggestions = <<>>
    /\ filtered_suggestions = <<>>
    /\ min_confidence = 8
    /\ max_changes = 50
    /\ fileIdx = 0
    /\ automator = NoAutomator
    /\ run = NoRun(dart, arb)
    /\ fn = NoCall
    /\ fx = NoFix
    /\ \E text \in RewriteTexts :
          \/ \E sugg \in RewriteSuggestions :
                rw = [NoRewrite EXCEPT !.engine = "applier", !.text = text,
                                       !.prev = text, !.sugg = sugg]
          \/ \E doc \in RewriteCatalogs, dry_run \in BOOLEAN :
                rw = [NoRewrite EXCEPT !.engine = "automator", !.text = text,
                                       !.prev = text, !.english = doc,
                                       !.dry_run = dry_run]

sessionVars == <<dart, arb, backup, pc, applier, suggestions, filtered_suggestions,
                 min_confidence, max_changes, fileIdx, automator, run>>

\* LocalizationApplier.apply_localization_to_file on the content.
RewriteApplier ==
    /\ rw.engine = "applier"
    /\ rw.applied < MaxApply
    /\ ~rw.extracted
    /\ \E io \in FileOutcomes :
          LET r == Applier_apply_localization_to_file(
                       File(rw.text), RelPath("lib/a.dart"), rw.sugg, io)
          IN  rw' = [rw EXCEPT !.prev = rw.text, !.text = r.file.text,
                               !.ret = r.ret, !.applied = @ + 1,
                               !.clean = @ /\ io = "ok" /\ ~r.failed]
    /\ UNCHANGED <<sessionVars, fn, fx>>

\* FlutterLocalizationAutomator.apply_localization_to_file on the content.
RewriteAutomator ==
    /\ rw.engine = "automator"
    /\ rw.applied < MaxApply
    /\ ~rw.extracted
    /\ \E io \in FileOutcomes :
          LET r == Automator_apply_localization_to_file(
                       File(rw.text), rw.english, rw.dry_run, io)
          IN  rw' = [rw EXCEPT !.prev = rw.text, !.text = r.file.text,
                               !.ret = r.ret, !.applied = @ + 1,
                               !.clean = @ /\ io = "ok" /\ ~r.failed]
    /\ UNCHANGED <<sessionVars, fn, fx>>

\* FlutterLocalizationAutomator.extract_strings_from_file on the content.
Extract ==
    /\ ~rw.extracted
    /\ rw.engine # "none"
    /\ \E io \in {"ok", "read_error"} :
          rw' = [rw EXCEPT !.extracted = TRUE,
                    !.found = IF io = "ok" THEN ExtractMatches(rw.text) ELSE <<>>,
                    !.result = extract_strings_from_file(File(rw.text), io)]
    /\ UNCHANGED <<sessionVars, fn, fx>>

NextRewrite ==
    \/ RewriteApplier
    \/ RewriteAutomator
    \/ Extract

SpecRewrite == InitRewrite /\ [][NextRewrite]_vars


-----------------------------------------------------------------------------
(* Properties of the rewriters and the extractor *)

\* A line in a const, static-declaration or field-initializer context.
ConstContext(line) ==
    \/ \E i \in 1..Len(line) : line[i] \in {"const", "static"}
    \/ Len(line) > 0 /\ line[1] = "final"

\* C2: a rewrite never places a lookup on a site in a const, static or
\* field-initializer context: after apply_localization_to_file of either
\* engine, every such line is as it was or has lost its qualifier.
C2_ContextSafety ==
    (rw.applied >= 1 /\ rw.clean) =>
        LET before == Split(rw.prev)
            after == Split(rw.text)
        IN  /\ Len(after) = Len(before)
            /\ \A i \in 1..Len(before) :
                  ConstContext(before[i]) =>
                      \/ after[i] = before[i]
                      \/ ~ConstContext(after[i])

\* C3: a second apply_localization_to_file over the output of the first
\* makes no change and reports zero changes.
C3_Idempotent ==
    (rw.applied = 2 /\ rw.clean /\ ~rw.dry_run) =>
        /\ rw.text = rw.prev
        /\ rw.ret = 0

\* The quoted spans of a content, of both quote characters.
Literals(content) == FindLiterals(content, SQ, 1) \o FindLiterals(content, DQ, 1)

\* The lookup marker lies within the 100 characters before token start.
MarkerInWindow(content, start) ==
    \E k \in 1..(start - 1) :
        /\ content[k] = MARKER
        /\ CharLen(SubSeq(content, k, start - 1)) <= LookbackWindow

\* The span opening at token start is the fallback literal of a lookup
\* expression "AppLocalizations.of(context)?.key ?? '...'".
IsFallback(content, start) ==
    /\ start > 6
    /\ SubSeq(content, start - 3, start - 1) = <<SP, "??", SP>>
    /\ content[start - 5] = "?."
    /\ content[start - 6] = MARKER

Found(m) == \E i \in 1..Len(rw.found) : rw.found[i] = m

-----------------------------------------------------------------------------
(* Properties of the session *)

\* apply_suggestions is between create_backup and its return.
InApply == pc \in {"load_suggestions", "filter", "files", "summary", "return"}

\* C1: restore_backup after an apply_suggestions run whose snapshot
\* completed makes the source files and the catalogs equal to what they were
\* at the start of that run.
C1_Rollback ==
    (run.last = "restore_backup" /\ run.snapshot) => Tree(dart, arb) = run.start

\* A run rewrote a source file and wrote catalog entries, and the snapshot
\* was restored after it.
C1_Witness ==
    /\ run.last = "restore_backup" /\ run.snapshot
    /\ applier.files_modified > 0
    /\ applier.keys_added > 0
    /\ Tree(dart, arb) = run.start

\* C4: after an apply_suggestions run every translation key of app_en.arb
\* is a key of app_ru.arb.
C4_KeySetInvariant ==
    (pc = "return" /\ arb["app_en.arb"].state = "ok") =>
        DocKeys(arb["app_en.arb"].doc) \subseteq DocKeys(arb["app_ru.arb"].doc)

\* The suggestions of the run below the confidence floor, a missing
\* confidence counting as 0.
BelowFloor ==
    {i \in 1..Len(suggestions) : GetConfidence(suggestions[i]) < min_confidence}

\* C5: every suggestion the filter returns has confidence >= min_confidence,
\* and for a suggestion below it the run writes no lookup of its key to a
\* source file and adds its key to no catalog.
C5_ConfidenceFloor ==
    (pc \in {"files", "summary", "return"}) =>
        /\ \A i \in 1..Len(filtered_suggestions) :
              GetConfidence(filtered_suggestions[i]) >= min_confidence
        /\ \A i \in BelowFloor :
              /\ \A f \in DartFiles :
                    StrCount(dart[f].text, <<MARKER, "?.", suggestions[i].key>>)
                        <= StrCount(run.start.dart[f].text,
                                    <<MARKER, "?.", suggestions[i].key>>)
              /\ \A f \in ArbFiles :
                    HasKey(arb[f].doc, suggestions[i].key)
                        => HasKey(run.start.arb[f].doc, suggestions[i].key)

\* A run with a suggestion below the floor rewrote a file and added keys for
\* the accepted suggestion.
C5_Witness ==
    /\ pc = "summary"
    /\ BelowFloor # {}
    /\ applier.strings_localized > 0
    /\ applier.keys_added > 0

\* C7: a source file or catalog differs from the start of the run only when
\* create_backup has completed the snapshot of that start; when create_backup
\* fails the run ends with nothing modified.
C7_BackupFirst ==
    /\ pc = "aborted" => Tree(dart, arb) = run.start
    /\ (InApply /\ Tree(dart, arb) # run.start) =>
          /\ run.snapshot
          /\ backup = Copied(run.start, Len(CopyOrder))

\* copytree failed after it copied part of lib: the run ended.
C7_Witness ==
    /\ pc = "aborted"
    /\ backup.exists
    /\ backup # Copied(run.start, Len(CopyOrder))
    /\ backup # OldBackup
    /\ Tree(dart, arb) = run.start

\* C8: a run of either script that finds a malformed catalog writes no
\* source file and no catalog.
C8_MalformedAborts ==
    (pc # "ready" /\ \E f \in ArbFiles : run.start.arb[f].state = "malformed")
        => Tree(dart, arb) = run.start

\* C9: the failure of one source file does not end the run: the file is
\* left as it was, the run stays in its loop or goes on to the catalog
\* update and the summary, and at these every source file has been visited.
C9_FileFailureIsolated ==
    /\ pc = "aborted" => run.visited = {}
    /\ \A f \in run.failed : dart[f] = run.start.dart[f]
    /\ run.failed # {} => pc \in {"files", "summary", "return",
                                  "auto_files", "auto_return"}
    /\ run.arb_updated => run.visited = DartFiles
    /\ run.summary => /\ run.visited = DartFiles
                      /\ run.last \in {"summary", "auto_summary"}
                      /\ run.last = "summary" => run.arb_updated

\* One file failed, the other was rewritten, the catalogs were updated and
\* the summary was logged.
C9_Witness ==
    /\ run.summary /\ run.last = "summary"
    /\ run.failed # {}
    /\ \E f \in DartFiles : dart[f] # run.start.dart[f]
    /\ arb # run.start.arb

\* C10: restore_backup without a snapshot changes neither the source files
\* nor the catalogs, and reports that nothing was restored.
C10_RestoreWithoutBackup ==
    [][(~backup.exists /\ run'.last \in {"restore_backup", "restore_no_backup"})
          => /\ run'.last = "restore_no_backup"
             /\ UNCHANGED <<dart, arb, backup>>]_vars

\* restore_backup was called on a project with sources and no snapshot.
C10_Witness ==
    /\ run.last = "restore_no_backup"
    /\ ~backup.exists
    /\ \A f \in DartFiles : dart[f].exists /\ dart[f].text # <<>>

-----------------------------------------------------------------------------
(* The filter, the limit and their users on one suggestion document *)

Template == <<"$", "{", "count", "}", SP, "items">>

FilterValues == { <<"Save">>, <<"X">>, <<"Hi">>, <<"OK">>, Template, <<"$">> }
FilterWidgets == {"button", "label", "text"}
FilterKeys == {"save_button", "ok_label"}

\* One suggestion of lib/a.dart, of every value, confidence (none, 0.5,
\* 0.9), widget_type and key.
FilterPool ==
    { Suggestion(k, v, c # 0, c, w, InA) :
        k \in FilterKeys, v \in FilterValues, c \in {0, 5, 9}, w \in FilterWidgets }

HiA == Suggestion("open_it", <<"Hi">>, TRUE, 9, "label", InA)
ItemsA == Suggestion("old_key", Template, TRUE, 10, "label", InA)

\* The documents handed to the filter: every single suggestion of the pool,
\* and documents of several.
FilterDocs ==
    { <<s>> : s \in FilterPool } \cup
    { <<SaveA, HiA, OldB>>, <<LowB, SaveA, HiA>>, <<ItemsA, SaveA, HiA>>,
      <<HiA, OkA>> }

\* lib/a.dart with a literal of every value.
FilterText ==
    LinePlain \o <<"Text", "(", SQ, "X", SQ, ")", NL>>
              \o <<"Text", "(", SQ, "Hi", SQ, ")", NL>>
              \o <<"Text", "(", SQ>> \o Template \o <<SQ, ")", NL>>

\* A catalog with the metadata of a key it does not hold, and one that holds
\* the key with a translation of its own.
DocOrphan(locale) ==
    DocLocale(locale) \o <<MetaEntry("@save_button", <<"by hand">>)>>
DocKept(locale) ==
    DocLocale(locale) \o
    <<StrEntry("save_button", <<"Keep">>), MetaEntry("@save_button", <<"by hand">>)>>

FilterCatalogs(locale) ==
    { AbsentArb, MalformedArb, OkArb(DocOld(locale)), OkArb(DocOrphan(locale)),
      OkArb(DocKept(locale)) }

InitFilter ==
    /\ dart = [f \in DartFiles |-> File(<<>>)]
    /\ arb = [f \in ArbFiles |-> AbsentArb]
    /\ backup = NoBackup
    /\ pc = "ready"
    /\ applier = NewApplier(arb)
    /\ suggestions = <<>>
    /\ filtered_suggestions = <<>>
    /\ min_confidence = 8
    /\ max_changes = 50
    /\ fileIdx = 0
    /\ automator = NoAutomator
    /\ run = NoRun(dart, arb)
    /\ rw = NoRewrite
    /\ fx = NoFix
    /\ \E doc \in FilterDocs, args \in {<<8, 50>>, <<0, 50>>, <<8, 2>>, <<8, 1>>, <<0, 0>>},
          existing \in {{}, {"save_button"}}, locale \in {"en", "ru"} :
          \E file \in FilterCatalogs(locale) :
             fn = [NoCall EXCEPT !.stage = "input", !.sugg = doc,
                                 !.minc = args[1], !.maxc = args[2],
                                 !.existing = existing, !.locale = locale,
                                 !.file = file, !.out = file,
                                 !.text = FilterText]

\* filter_high_confidence_suggestions(suggestions, min_confidence)
CallFilter ==
    /\ fn.stage = "input"
    /\ fn' = [fn EXCEPT !.stage = "filtered",
                 !.filtered = filter_high_confidence_suggestions(
                                  fn.sugg, fn.minc, fn.existing)]
    /\ UNCHANGED <<sessionVars, rw, fx>>

\* The max_changes limit of apply_suggestions.
CallLimit ==
    /\ fn.stage = "filtered"
    /\ fn' = [fn EXCEPT !.stage = "limited",
                 !.limited = LimitChanges(fn.filtered, fn.maxc)]
    /\ UNCHANGED <<sessionVars, rw, fx>>

\* apply_localization_to_file(lib/a.dart, filtered_suggestions)
CallApply ==
    /\ fn.stage = "limited"
    /\ LET r == Applier_apply_localization_to_file(
                    File(fn.text), RelPath("lib/a.dart"), fn.limited, "ok")
       IN  fn' = [fn EXCEPT !.stage = "applied", !.text = r.file.text,
                            !.ret = r.ret]
    /\ UNCHANGED <<sessionVars, rw, fx>>

\* add_keys_to_arb_file(arb_path, filtered_suggestions, locale)
CallAddKeys ==
    /\ fn.stage = "applied"
    /\ LET r == add_keys_to_arb_file(fn.file, fn.limited, fn.locale)
       IN  fn' = [fn EXCEPT !.stage = "added", !.out = r.file,
                            !.keys_added = r.keys_added]
    /\ UNCHANGED <<sessionVars, rw, fx>>

NextFilter ==
    \/ CallFilter
    \/ CallLimit
    \/ CallApply
    \/ CallAddKeys

SpecFilter == InitFilter /\ [][NextFilter]_vars

-----------------------------------------------------------------------------
(* Properties of the filter, the limit and the catalog update *)

\* C11: add_keys_to_arb_file overwrites no entry: every entry of the
\* document before the call, translation or '@' metadata, is an entry of the
\* document after it.
C11_NoOverwrite ==
    fn.stage = "added" =>
        \A i \in 1..Len(fn.file.doc) :
            \E j \in 1..Len(fn.out.doc) : fn.out.doc[j] = fn.file.doc[i]

-----------------------------------------------------------------------------
(* Properties of the session: what a run applies *)

\* The catalog update of the run is done.
AfterUpdate == pc \in {"summary", "return"} /\ run.arb_updated

\* The source files a suggestion is associated with.
FilesOf(data) == {f \in DartFiles : IsSubstr(RelPath(f), data.description)}

\* The literal of a suggestion, in either quote style, occurs in a text.
HasLiteral(text, value) ==
    IsSubstr(Quoted(SQ, value), text) \/ IsSubstr(Quoted(DQ, value), text)

\* A text holds a lookup of key with the literal value as fallback.
HasLookup(text, key, value) ==
    \E q \in {SQ, DQ} :
        IsSubstr(<<MARKER, "?.", key, SP, "??", SP>> \o Quoted(q, value), text)

HasEntry(doc, entry) == \E i \in 1..Len(doc) : doc[i] = entry

\* C12: after a run in which no file failed and both catalogs could be
\* read, for every accepted suggestion whose key was in neither catalog and
\* whose literal occurred in its source file, the file holds the lookup with
\* the literal as fallback, app_en.arb maps the key to the value and
\* app_ru.arb maps it to "[RU] " and the value.
C12_Scenario ==
    (/\ AfterUpdate
     /\ run.failed = {}
     /\ \A f \in ArbFiles : run.start.arb[f].state # "malformed") =>
        \A i \in 1..Len(filtered_suggestions) :
            LET data == filtered_suggestions[i]
            IN  \A f \in FilesOf(data) :
                   (/\ \A c \in ArbFiles : ~HasKey(run.start.arb[c].doc, data.key)
                    /\ HasLiteral(run.start.dart[f].text, data.value)) =>
                       /\ HasLookup(dart[f].text, data.key, data.value)
                       /\ HasEntry(arb["app_en.arb"].doc, StrEntry(data.key, data.value))
                       /\ HasEntry(arb["app_ru.arb"].doc,
                                   StrEntry(data.key, <<"[RU]", SP>> \o data.value))

-----------------------------------------------------------------------------
(* Properties of the filter *)

HasTemplate(value) == \E i \in 1..Len(value) : value[i] = "$"

InSeq(seq, x) == \E i \in 1..Len(seq) : seq[i] = x

\* C13: a suggestion whose value holds a template marker is never accepted
\* by the filter, whatever its confidence, widget_type and key; no lookup
\* of its key is written to the file and its key is added to no catalog.
C13_TemplateExcluded ==
    \A i \in 1..Len(fn.sugg) :
        HasTemplate(fn.sugg[i].value) =>
            /\ ~InSeq(fn.filtered, fn.sugg[i])
            /\ ~InSeq(fn.limited, fn.sugg[i])
            /\ ~IsSubstr(<<MARKER, "?.", fn.sugg[i].key>>, fn.text)
            /\ HasKey(fn.out.doc, fn.sugg[i].key) => HasKey(fn.file.doc, fn.sugg[i].key)

\* The suggestion '${count} items' at confidence 1.0 was dropped while the
\* two suggestions after it were accepted, rewritten or added.
C13_Witness ==
    /\ fn.stage = "added"
    /\ fn.sugg = <<ItemsA, SaveA, HiA>>
    /\ fn.limited = <<SaveA, HiA>>
    /\ fn.ret > 0
    /\ fn.keys_added = 2
    /\ ~HasKey(fn.out.doc, "old_key")

\* The trimmed value has fewer than 3 characters.
Short(data) == CharLen(Strip(data.value)) < 3

Filtered == fn.stage \in {"filtered", "limited", "applied", "added"}

\* C14: a suggestion whose trimmed value is shorter than 3 characters is
\* excluded when its widget_type is neither button nor label; when it is
\* button or label the suggestion is accepted exactly when the other rules
\* accept it: confidence at the threshold, no template marker, not all
\* uppercase without a space, key not among the existing keys.
C14_ShortValues ==
    Filtered =>
        \A i \in 1..Len(fn.sugg) :
            LET data == fn.sugg[i]
            IN  Short(data) =>
                  IF data.widget_type \notin {"button", "label"}
                  THEN ~InSeq(fn.filtered, data)
                  ELSE InSeq(fn.filtered, data) <=>
                          /\ GetConfidence(data) >= fn.minc
                          /\ ~HasTemplate(data.value)
                          /\ ~(IsUpper(data.value) /\ ~InSeq(data.value, SP))
                          /\ data.key \notin fn.existing

\* C14 as stated: with widget_type button or label and the confidence at the
\* threshold, the short suggestion is accepted.
C14_ShortIncluded ==
    Filtered =>
        \A i \in 1..Len(fn.sugg) :
            LET data == fn.sugg[i]
            IN  Short(data) =>
                  IF data.widget_type \notin {"button", "label"}
                  THEN ~InSeq(fn.filtered, data)
                  ELSE GetConfidence(data) >= fn.minc => InSeq(fn.filtered, data)

\* The filter was given 'Hi' as a label at confidence 0.9 and threshold 0.8
\* with a new key, and accepted it.
C14_Witness ==
    /\ fn.stage = "filtered"
    /\ fn.sugg = <<Suggestion("ok_label", <<"Hi">>, TRUE, 9, "label", InA)>>
    /\ fn.minc = 8
    /\ fn.existing = {}
    /\ fn.filtered = fn.sugg

-----------------------------------------------------------------------------
(* Properties of the session: keys and rewrites *)

\* The run wrote a lookup of key to a source file.
Rewritten(key) ==
    \E f \in DartFiles :
        StrCount(dart[f].text, <<MARKER, "?.", key>>)
            > StrCount(run.start.dart[f].text, <<MARKER, "?.", key>>)

\* C15: a run adds a key to a catalog only for a suggestion it has
\* rewritten in some source file.
C15_KeysOnlyForRewritten ==
    AfterUpdate =>
        \A i \in 1..Len(filtered_suggestions) :
            \A c \in ArbFiles :
                (/\ HasKey(arb[c].doc, filtered_suggestions[i].key)
                 /\ ~HasKey(run.start.arb[c].doc, filtered_suggestions[i].key))
                    => Rewritten(filtered_suggestions[i].key)

-----------------------------------------------------------------------------
(* Several runs on one project *)

\* One project, with MaxCalls runs: apply_suggestions may be called again
\* on the same LocalizationApplier, or on a new one.
InitTwice ==
    /\ dart = [f \in DartFiles |->
                 IF f = "lib/a.dart" THEN File(LineOpen \o LinePlain)
                 ELSE File(LinePlain)]
    /\ arb \in {a \in [ArbFiles -> UNION {ArbStates(f) : f \in ArbFiles}] :
                    /\ a["app_en.arb"] \in {OkArb(DocLocale("en")), OkArb(DocOld("en"))}
                    /\ a["app_ru.arb"] = OkArb(DocLocale("ru"))}
    /\ backup = NoBackup
    /\ pc = "ready"
    /\ applier = NewApplier(arb)
    /\ suggestions = <<>>
    /\ filtered_suggestions = <<>>
    /\ min_confidence = 8
    /\ max_changes = 50
    /\ fileIdx = 0
    /\ automator = NoAutomator
    /\ run = [NoRun(dart, arb) EXCEPT !.limit = MaxCalls]
    /\ rw = NoRewrite
    /\ fn = NoCall
    /\ fx = NoFix

SpecTwice == InitTwice /\ [][Next]_vars

\* C16: the filter accepts no suggestion whose key is in app_en.arb at the
\* time of the call, also on a second apply_suggestions call on the same
\* LocalizationApplier.
C16_NoExistingKey ==
    pc = "files" =>
        \A i \in 1..Len(filtered_suggestions) :
            ~HasKey(arb["app_en.arb"].doc, filtered_suggestions[i].key)

-----------------------------------------------------------------------------
(* Properties of the limit *)

Limited == fn.stage \in {"limited", "applied", "added"}

\* The keys the catalog update added to the document.
NewKeys == {k \in DocKeys(fn.out.doc) : ~HasKey(fn.file.doc, k)}

\* C17: the suggestions applied are the first max_changes accepted ones in
\* the order of the input, all of them when there are no more than
\* max_changes; no more than max_changes are rewritten in the file or added
\* to the catalog.
C17_Cap ==
    Limited =>
        /\ fn.filtered = SelectSeq(fn.sugg, LAMBDA data : InSeq(fn.filtered, data))
        /\ Len(fn.limited) = IF Len(fn.filtered) > fn.maxc THEN fn.maxc
                             ELSE Len(fn.filtered)
        /\ \A i \in 1..Len(fn.limited) : fn.limited[i] = fn.filtered[i]
        /\ fn.ret <= fn.maxc
        /\ fn.keys_added <= fn.maxc
        /\ Cardinality(NewKeys) <= fn.maxc

\* Three suggestions passed the filter with max_changes 2: the first two
\* were applied and added.
C17_Witness ==
    /\ fn.stage = "added"
    /\ fn.sugg = <<SaveA, HiA, OldB>>
    /\ Len(fn.filtered) = 3
    /\ fn.maxc = 2
    /\ fn.limited = <<SaveA, HiA>>
    /\ fn.ret = 2
    /\ NewKeys = {"save_button", "open_it"}

-----------------------------------------------------------------------------
(* Properties of the rewriters: the fallback literal *)

\* The (key, text) pairs the rewriter under study works from.
RewritePairs ==
    {<<rw.sugg[i].key, rw.sugg[i].value>> : i \in 1..Len(rw.sugg)} \cup
    {<<rw.english[i].key, rw.english[i].val>> :
        i \in {j \in 1..Len(rw.english) : rw.english[j].str}}

\* line became now by replacing a literal, in quote style q, by the lookup
\* of a key with the same literal in the same quote style as fallback.
SameQuoteRewrite(line, now) ==
    \E q \in {SQ, DQ}, p \in RewritePairs :
        /\ IsSubstr(Quoted(q, p[2]), line)
        /\ now = StrReplace(line, Quoted(q, p[2]),
                            <<MARKER, "?.", p[1], SP, "??", SP>> \o Quoted(q, p[2]))

\* C18: a line at a plain site that a rewrite changed has its literal
\* replaced by a lookup whose fallback is the same text in the same quote
\* style.
C18_QuoteStyle ==
    (rw.applied >= 1 /\ rw.clean /\ ~rw.dry_run) =>
        LET before == Split(rw.prev)
            after == Split(rw.text)
        IN  \A i \in 1..Len(before) :
               (~ConstContext(before[i]) /\ after[i] # before[i])
                   => SameQuoteRewrite(before[i], after[i])

HasMarker(text) == \E i \in 1..Len(text) : text[i] = MARKER

\* A lookup expression stands in the fallback position of another.
HasNested(text) == IsSubstr(<<"??", SP, MARKER>>, text)

\* C20: one pass of apply_localization_to_file over a content without
\* lookups leaves no lookup nested in the fallback position of another.
C20_NoNestingInOnePass ==
    (rw.applied = 1 /\ rw.clean /\ ~HasMarker(rw.prev)) => ~HasNested(rw.text)

-----------------------------------------------------------------------------
(* Properties of the session: the summary *)

\* C19: a run of apply_suggestions that took its snapshot returns only
\* after its summary.
C19_SummaryBeforeIdle ==
    (pc = "return" /\ run.snapshot) => run.summary

-----------------------------------------------------------------------------
(* Properties of the session: the order of the writes *)

\* A step inside a run of one of the two scripts.
InRun == pc # "ready"

\* C21: in a run the catalogs are written only after every source file
\* has been processed, each catalog at most once, and no source file is
\* rewritten after a catalog write.
C21_CatalogsAfterSources ==
    [][ /\ (InRun /\ arb' # arb) =>
              /\ run.visited = DartFiles
              /\ ~run.arb_updated
              /\ dart' = dart
        /\ (InRun /\ dart' # dart) => ~run.arb_updated ]_vars

\* A run that rewrote a source file and then wrote both catalogs.
C21_Witness ==
    /\ pc = "summary"
    /\ run.arb_updated
    /\ run.visited = DartFiles
    /\ dart # run.start.dart
    /\ \A f \in ArbFiles : arb[f] # run.start.arb[f]

-----------------------------------------------------------------------------
(* The fix-up scripts: the import of app_localizations.dart *)

L10N == "l10n/app_localizations.dart"
UP == "../"
PACKAGE == "package:lifecopilot/"

\* The tokens of a path that end with the separator.
DirTokens == {"lib/", "src/", "x/", "y/", "z/"}

\* text.count('/') of a path or of a part of it.
SlashCount(path) == Cardinality({i \in 1..Len(path) : path[i] \in DirTokens})

\* '../' * depth
Ups(depth) == [i \in 1..depth |-> UP]

\* f"import '{import_path}';"
ImportStatement(import_path) == <<"import", SP, SQ>> \o import_path \o <<SQ, ";">>

\* line.startswith(prefix)
StartsWith(line, prefix) == MatchAt(line, prefix, 1)

\* lines.insert(index, line), index counted from 0.
ListInsert(lines, index, line) ==
    LET at == IF index > Len(lines) THEN Len(lines) ELSE index
    IN  SubSeq(lines, 1, at) \o <<line>> \o SubSeq(lines, at + 1, Len(lines))

\* LocalizationIssuesFixer.calculate_import_path
calculate_import_path(file_path) ==
    LET lib == {i \in 1..Len(file_path) : file_path[i] = "lib/"}
    IN  IF lib = {} THEN <<UP, L10N>>
        ELSE LET path_after_lib == SubSeq(file_path, Min(lib) + 1, Len(file_path))
                 depth == SlashCount(path_after_lib)
             IN  Ups(depth) \o <<L10N>>

\* "Check if already imported" of fix_missing_imports: one to four '../',
\* up to the closing quote.
IssuesImported(content) ==
    \E n \in 1..4 :
        IsSubstr(<<"import", SP, SQ>> \o Ups(n) \o <<L10N, SQ>>, content)

\* The index (from 0) fix_missing_imports finds: of the last line that
\* starts with 'import ', else of the first line that is neither blank nor
\* a comment, else 0.
ImportIndex(lines) ==
    LET imports == {i \in 1..Len(lines) :
                        StartsWith(Strip(lines[i]), <<"import", SP>>)}
        code == {i \in 1..Len(lines) :
                        /\ Strip(lines[i]) # <<>>
                        /\ ~StartsWith(Strip(lines[i]), <<"//">>)}
    IN  IF imports # {} THEN (CHOOSE i \in imports : \A j \in imports : j <= i) - 1
        ELSE IF code # {} THEN Min(code) - 1
        ELSE 0

\* LocalizationIssuesFixer.fix_missing_imports: the file afterwards and the
\* number returned.
fix_missing_imports(file, file_path, io) ==
    IF io = "read_error" \/ ~file.exists THEN [file |-> file, ret |-> 0]
    ELSE IF ~IsSubstr(<<MARKER>>, file.text) THEN [file |-> file, ret |-> 0]
    ELSE IF IssuesImported(file.text) THEN [file |-> file, ret |-> 0]
    ELSE LET lines == Split(file.text)
             import_index == ImportIndex(lines)
             import_statement == ImportStatement(calculate_import_path(file_path))
             new_lines == ListInsert(lines, import_index + 1, import_statement)
         IN  IF io = "write_error" THEN [file |-> file, ret |-> 0]
             ELSE [file |-> File(Join(new_lines)), ret |-> 1]

\* "Check if already imported" of fix_imports_and_context: one or two '../'
\* or the package path, up to the semicolon.
ImportsImported(content) ==
    \/ \E n \in 1..2 : IsSubstr(ImportStatement(Ups(n) \o <<L10N>>), content)
    \/ IsSubstr(ImportStatement(<<PACKAGE, L10N>>), content)

\* os.path.dirname(file_path), without its last separator.
Dirname(file_path) == SubSeq(file_path, 1, Len(file_path) - 1)

\* file_dir.count(os.sep) - 1
RelativeDepth(file_path) ==
    LET file_dir == Dirname(file_path)
    IN  (IF file_dir = <<>> THEN 0 ELSE SlashCount(file_dir) - 1) - 1

\* import_line of fix_imports_and_context, without the word import.
ImportsPath(file_path) ==
    LET relative_depth == RelativeDepth(file_path)
    IN  IF relative_depth = 1 THEN <<UP, L10N>>
        ELSE IF relative_depth = 2 THEN <<UP, UP, L10N>>
        ELSE <<UP, L10N>>

\* The end of the match of (import\s+[^;]+;)\s*\n that starts at i, 0 when
\* there is none: the word, white space, something up to the first
\* semicolon, then the white space up to its last newline.
ImportMatchEnd(content, i) ==
    IF ~(i + 1 <= Len(content) /\ content[i] = "import"
         /\ content[i + 1] \in Whitespace)
    THEN 0
    ELSE LET semis == {j \in (i + 3)..Len(content) : content[j] = ";"}
             early == {j \in (i + 1)..(i + 2) : j <= Len(content) /\ content[j] = ";"}
         IN  IF semis = {} \/ early # {} THEN 0
             ELSE LET semi == Min(semis)
                      stop == {k \in (semi + 1)..(Len(content) + 1) :
                                  k > Len(content) \/ content[k] \notin Whitespace}
                      run_end == Min(stop) - 1
                      nls == {k \in (semi + 1)..run_end : content[k] = NL}
                  IN  IF nls = {} THEN 0
                      ELSE CHOOSE k \in nls : \A m \in nls : m <= k

RECURSIVE LastImportEnd(_, _, _)
\* matches[-1].end() of re.finditer from position pos on; last when no
\* further match.
LastImportEnd(content, pos, last) ==
    LET starts == {i \in pos..Len(content) : ImportMatchEnd(content, i) > 0}
    IN  IF starts = {} THEN last
        ELSE LastImportEnd(content, ImportMatchEnd(content, Min(starts)) + 1,
                           ImportMatchEnd(content, Min(starts)))

\* The first half of fix_imports_and_context on one file: the import line
\* after the last import statement, or at the top.
AddImport(content, file_path) ==
    IF ~IsSubstr(<<MARKER>>, content) \/ ImportsImported(content) THEN content
    ELSE LET import_line == ImportStatement(ImportsPath(file_path))
             last_import_end == LastImportEnd(content, 1, 0)
         IN  SubSeq(content, 1, last_import_end) \o import_line \o <<NL>>
             \o SubSeq(content, last_import_end + 1, Len(content))

-----------------------------------------------------------------------------
(* The fix-up scripts: regular expressions over the lookup expression *)

Quotes == {SQ, DQ}

\* Tokens with a character outside \w.
NonWordTokens ==
    SpecialChars \cup CompositeTokens \cup Quotes \cup DirTokens \cup
    {"=", ";", ":", ",", "//", UP, L10N, PACKAGE, "a.dart", "b.dart",
     "TODO: Localize dynamically", "TODO: Make this dynamic"}

\* \w+ matches the whole token.
IsWord(token) == token \notin NonWordTokens

\* The place after \s* from i on.
SkipWs(text, i) ==
    Min({k \in i..Len(text) : text[k] \notin Whitespace} \cup {Len(text) + 1})

\* The first place from i on that holds one of the tokens, Len(text) + 1
\* when there is none.
First(text, i, tokens) ==
    Min({k \in i..Len(text) : text[k] \in tokens} \cup {Len(text) + 1})

Max(S) == CHOOSE x \in S : \A y \in S : y <= x

\* A statement  x = value  followed by Body(x): the value is computed once.
Bind(value, Body(_)) == CHOOSE y \in {Body(x) : x \in {value}} : TRUE

NoMatch == [end |-> 0, key |-> "", fallback |-> <<>>, quote |-> SQ, close |-> SQ]

\* AppLocalizations\.of\(context\)\?\.(\w+)\s*\?\?\s*['"]([^'"]{least,})['"]
\* matched at i: the last place of the match, the key, the text between the
\* quotes and the two quotes.
Lookup(text, i, least) ==
    Bind(SkipWs(text, i + 3), LAMBDA a :
    Bind(SkipWs(text, a + 1), LAMBDA b :
    Bind(First(text, b + 1, Quotes), LAMBDA c :
        IF /\ i >= 1
           /\ i + 2 <= Len(text)
           /\ text[i] = MARKER
           /\ text[i + 1] = "?."
           /\ IsWord(text[i + 2])
           /\ a <= Len(text)
           /\ text[a] = "??"
           /\ b <= Len(text)
           /\ text[b] \in Quotes
           /\ c <= Len(text)
           /\ c - b - 1 >= least
        THEN [end |-> c, key |-> text[i + 2],
              fallback |-> SubSeq(text, b + 1, c - 1),
              quote |-> text[b], close |-> text[c]]
        ELSE NoMatch)))

RECURSIVE SubAll(_, _, _, _)
\* re.sub over text from pos on: ends[i] is the last place of the match
\* that starts at i (0 for none), repl[i] what is put in its place; the
\* matches are taken left to right and do not overlap.
SubAll(text, ends, repl, pos) ==
    LET starts == {i \in pos..Len(text) : ends[i] > 0}
    IN  IF starts = {} THEN SubSeq(text, pos, Len(text))
        ELSE SubSeq(text, pos, Min(starts) - 1) \o repl[Min(starts)]
             \o SubAll(text, ends, repl, ends[Min(starts)] + 1)

RECURSIVE CountAll(_, _, _)
\* len(re.findall(...)) for the same matches.
CountAll(text, ends, pos) ==
    LET starts == {i \in pos..Len(text) : ends[i] > 0}
    IN  IF starts = {} THEN 0
        ELSE 1 + CountAll(text, ends, ends[Min(starts)] + 1)

\* (\w+)\s*=\s* and the lookup with a fallback of at least one character,
\* starting at the word at i; semi tells whether ';' must follow.
Assignment(text, i, semi) ==
    Bind(SkipWs(text, i + 1), LAMBDA eq :
    Bind(Lookup(text, SkipWs(text, eq + 1), 1), LAMBDA m :
        IF /\ i >= 1
           /\ i <= Len(text)
           /\ IsWord(text[i])
           /\ eq <= Len(text)
           /\ text[eq] = "="
           /\ m.end > 0
           /\ semi => (m.end + 1 <= Len(text) /\ text[m.end + 1] = ";")
        THEN [m EXCEPT !.end = IF semi THEN m.end + 1 ELSE m.end]
        ELSE NoMatch))

\* const\s+(\w+)\s*=\s* the lookup and ';', starting at the word const at i.
ConstAssignment(text, i) ==
    IF /\ i + 1 <= Len(text)
       /\ text[i] = "const"
       /\ text[i + 1] \in Whitespace
    THEN Assignment(text, SkipWs(text, i + 1), TRUE)
    ELSE NoMatch

\* len(line) - len(line.lstrip())
Indent(line) == CharLen(SubSeq(line, 1, SkipWs(line, 1) - 1))

-----------------------------------------------------------------------------
(* fix_localization_imports.py *)

\* re.sub(const_pattern, fix_const_usage, content)
FixConstUsage(content) ==
    SubAll(content,
        [i \in 1..Len(content) |-> ConstAssignment(content, i).end],
        [i \in 1..Len(content) |->
            <<"//", SP, "const", SP, content[SkipWs(content, i + 1)], SP, "=", SP, SQ>>
            \o ConstAssignment(content, i).fallback
            \o <<SQ, ";", SP, "//", SP, "TODO: Make this dynamic">>],
        1)

\* re.sub(field_pattern, fix_field_usage, line)
FixFieldUsage(line) ==
    SubAll(line,
        [i \in 1..Len(line) |-> Assignment(line, i, TRUE).end],
        [i \in 1..Len(line) |->
            <<line[i], SP, "=", SP, SQ>> \o Assignment(line, i, TRUE).fallback
            \o <<SQ, ";", SP, "//", SP, "TODO: Localize dynamically">>],
        1)

\* The loop over the lines: a line with a lookup and '=' that does not
\* start with return and is indented by at most four.
FixFieldLines(content) ==
    LET lines == Split(content)
        hit(line) == /\ IsSubstr(<<MARKER>>, line)
                     /\ \E i \in 1..Len(line) : line[i] = "="
                     /\ ~StartsWith(Strip(line), <<"return">>)
                     /\ Indent(line) <= 4
    IN  Join([i \in 1..Len(lines) |->
                 IF hit(lines[i]) THEN FixFieldUsage(lines[i]) ELSE lines[i]])

\* fix_imports_and_context on one file of its loop.
fix_imports_and_context(file, file_path, io) ==
    IF io = "read_error" \/ ~file.exists THEN file
    ELSE Bind(Bind(Bind(AddImport(file.text, file_path), FixConstUsage), FixFieldLines),
              LAMBDA content :
                  IF content = file.text \/ io = "write_error" THEN file
                  ELSE File(content))

-----------------------------------------------------------------------------
(* Properties of the session: the dry run *)

\* run_localization(dry_run=True) is between its first file and its return.
DryRunning == pc \in {"auto_files", "auto_return"} /\ automator.dry_run

\* What apply_localization_to_file returns for the file as the run found
\* it, without dry_run and with the file written.
CountWithoutDryRun(path) ==
    Automator_apply_localization_to_file(
        run.start.dart[path], automator.english_translations, FALSE, "ok").ret

\* C24: a dry run leaves the content of every source file as it was, and
\* for each file it could read it reports the number of changes the run
\* without dry_run reports.
C24_DryRun ==
    /\ [](DryRunning => dart = run.start.dart)
    /\ [][(DryRunning /\ fileIdx' = fileIdx + 1) =>
            /\ dart' = dart
            /\ automator'.total_changes - automator.total_changes =
                  IF DartOrder[fileIdx] \in run'.failed THEN 0
                  ELSE CountWithoutDryRun(DartOrder[fileIdx])]_vars

\* A dry run at its return that reported changes.
C24_Witness ==
    /\ pc = "auto_return"
    /\ automator.dry_run
    /\ run.summary
    /\ automator.total_changes > 0
    /\ automator.files_modified > 0

-----------------------------------------------------------------------------
(* fix_localization_issues.py: fix_const_issues *)

\* The group ['"][^'"]*['"] of a match, quotes included.
QuotedFallback(m) == <<m.quote>> \o m.fallback \o <<m.close>>

\* f'AppLocalizations.of(context)?.{key} ?? {fallback}' for a match.
LookupText(m) == <<MARKER, "?.", m.key, SP, "??", SP>> \o QuotedFallback(m)

\* const\s+Text\s*\(\s* the lookup \s*\) starting at the word const at i.
ConstTextMatch(text, i) ==
    Bind(SkipWs(text, i + 1), LAMBDA t :
    Bind(SkipWs(text, t + 1), LAMBDA open :
    Bind(Lookup(text, SkipWs(text, open + 1), 0), LAMBDA m :
    Bind(SkipWs(text, m.end + 1), LAMBDA close :
        IF /\ i + 1 <= Len(text)
           /\ text[i] = "const"
           /\ text[i + 1] \in Whitespace
           /\ t <= Len(text)
           /\ text[t] = "Text"
           /\ open <= Len(text)
           /\ text[open] = "("
           /\ m.end > 0
           /\ close <= Len(text)
           /\ text[close] = ")"
        THEN [m EXCEPT !.end = close]
        ELSE NoMatch))))

\* const\s+([^=]+)=\s* the lookup, then \s*; (spaced) or ; starting at the
\* word const at i: the declared part runs to the first '=' after it.
\* least is the least length of the fallback.
ConstDeclMatch(text, i, least, spaced) ==
    Bind(First(text, i + 3, {"="}), LAMBDA eq :
    Bind(Lookup(text, SkipWs(text, eq + 1), least), LAMBDA m :
    Bind(IF spaced THEN SkipWs(text, m.end + 1) ELSE m.end + 1, LAMBDA semi :
        IF /\ i + 1 <= Len(text)
           /\ text[i] = "const"
           /\ text[i + 1] \in Whitespace
           /\ \A k \in (i + 1)..(i + 2) : k > Len(text) \/ text[k] # "="
           /\ eq <= Len(text)
           /\ m.end > 0
           /\ semi <= Len(text)
           /\ text[semi] = ";"
        THEN [m EXCEPT !.end = semi]
        ELSE NoMatch)))

\* The group ([^=]+) of that match: from after the white space to the '='.
DeclaredPart(text, i) ==
    Bind(First(text, i + 3, {"="}), LAMBDA eq :
    Bind(SkipWs(text, i + 1), LAMBDA from :
        SubSeq(text, IF from < eq THEN from ELSE eq - 1, eq - 1)))

\* const\s+(\w+)\s*\([^)]* the lookup [^)]*\) starting at the word const at
\* i.  AppLocalizations.of(context) itself holds a ')': the lookup is the
\* first one after the '(' and the match ends with the next ')', which may
\* be the one of a second lookup; then the match ends in that token and
\* the token is left as it is.
ConstCallMatch(text, i) ==
    Bind(SkipWs(text, i + 1), LAMBDA w :
    Bind(SkipWs(text, w + 1), LAMBDA open :
    Bind(Lookup(text, First(text, open + 1, {")", MARKER}), 0), LAMBDA m :
    Bind(First(text, m.end + 1, {")", MARKER}), LAMBDA stop :
        IF /\ i + 1 <= Len(text)
           /\ text[i] = "const"
           /\ text[i + 1] \in Whitespace
           /\ w <= Len(text)
           /\ IsWord(text[w])
           /\ open <= Len(text)
           /\ text[open] = "("
           /\ m.end > 0
           /\ stop <= Len(text)
        THEN [m EXCEPT !.end = IF text[stop] = ")" THEN stop ELSE stop - 1]
        ELSE NoMatch))))

\* (\w+)\s*:\s* the lookup, starting at the word at i.
NamedMatch(text, i) ==
    Bind(SkipWs(text, i + 1), LAMBDA colon :
        IF /\ i <= Len(text)
           /\ IsWord(text[i])
           /\ colon <= Len(text)
           /\ text[colon] = ":"
        THEN Lookup(text, SkipWs(text, colon + 1), 0)
        ELSE NoMatch)

\* One pattern with a replacement string: re.sub, and re.findall counted
\* when the content changed.
SubCounted(r, ends, repl) ==
    Bind(SubAll(r.content, ends, repl, 1), LAMBDA new_content :
        IF new_content # r.content
        THEN [content |-> new_content, fixes |-> r.fixes + CountAll(r.content, ends, 1)]
        ELSE r)

\* const_patterns[0]: const Text(lookup) -> const Text(fallback)
ConstTextFix(r) ==
    SubCounted(r,
        [i \in 1..Len(r.content) |-> ConstTextMatch(r.content, i).end],
        [i \in 1..Len(r.content) |->
            <<"const", SP, "Text", "(">>
            \o QuotedFallback(ConstTextMatch(r.content, i)) \o <<")">>])

\* const_patterns[1]: const ... = lookup; -> const ...= fallback;
ConstDeclFix(r) ==
    SubCounted(r,
        [i \in 1..Len(r.content) |-> ConstDeclMatch(r.content, i, 0, TRUE).end],
        [i \in 1..Len(r.content) |->
            <<"const", SP>> \o DeclaredPart(r.content, i) \o <<"=", SP>>
            \o QuotedFallback(ConstDeclMatch(r.content, i, 0, TRUE)) \o <<";">>])

\* const_patterns[2]: inside a const constructor call the text of the
\* lookup is replaced by its fallback; every match counts.
ConstCallFix(r) ==
    Bind([i \in 1..Len(r.content) |-> ConstCallMatch(r.content, i)], LAMBDA ms :
    Bind([i \in 1..Len(r.content) |-> ms[i].end], LAMBDA ends :
        [content |-> SubAll(r.content, ends,
                        [i \in 1..Len(r.content) |->
                            StrReplace(SubSeq(r.content, i, ms[i].end),
                                       LookupText(ms[i]), QuotedFallback(ms[i]))],
                        1),
         fixes |-> r.fixes + CountAll(r.content, ends, 1)]))

\* field_patterns[0]: name: lookup -> name: fallback
FieldFix(r) ==
    SubCounted(r,
        [i \in 1..Len(r.content) |-> NamedMatch(r.content, i).end],
        [i \in 1..Len(r.content) |->
            <<r.content[i], ":", SP>> \o QuotedFallback(NamedMatch(r.content, i))])

\* LocalizationIssuesFixer.fix_const_issues: the file afterwards and the
\* number returned.
fix_const_issues(file, io) ==
    IF io = "read_error" \/ ~file.exists THEN [file |-> file, ret |-> 0]
    ELSE Bind(Bind(Bind(Bind(ConstTextFix([content |-> file.text, fixes |-> 0]),
                             ConstDeclFix), ConstCallFix), FieldFix),
              LAMBDA r :
                  IF r.fixes > 0
                  THEN IF io = "write_error" THEN [file |-> file, ret |-> 0]
                       ELSE [file |-> File(r.content), ret |-> r.fixes]
                  ELSE [file |-> file, ret |-> 0])

-----------------------------------------------------------------------------
(* fix_localization_issues.py: fix_context_issues *)

\* static\s+[^{]*\{[^}]* the lookup [^}]*\} with re.DOTALL, starting at the
\* word static at i: the first '{' after it, the last lookup before the
\* next '}', and the first '}' after that lookup.
StaticMatch(text, i) ==
    Bind(First(text, i + 2, {"{"}), LAMBDA open :
    Bind(First(text, open + 1, {"}"}), LAMBDA close :
    Bind({k \in (open + 1)..(close - 1) :
             Bind(Lookup(text, k, 1).end, LAMBDA e :
                 e > 0 /\ First(text, e + 1, {"}"}) <= Len(text))},
         LAMBDA found :
        IF /\ i + 1 <= Len(text)
           /\ text[i] = "static"
           /\ text[i + 1] \in Whitespace
           /\ open <= Len(text)
           /\ close <= Len(text)
           /\ found # {}
        THEN Bind(Lookup(text, Max(found), 1), LAMBDA m :
                 [m EXCEPT !.end = First(text, m.end + 1, {"}"})])
        ELSE NoMatch)))

\* LocalizationIssuesFixer.fix_context_issues: the file afterwards and the
\* number returned.
fix_context_issues(file, io) ==
    IF io = "read_error" \/ ~file.exists THEN [file |-> file, ret |-> 0]
    ELSE Bind([i \in 1..Len(file.text) |-> StaticMatch(file.text, i)], LAMBDA ms :
         Bind([i \in 1..Len(file.text) |-> ms[i].end], LAMBDA ends :
         Bind(CountAll(file.text, ends, 1), LAMBDA fixes :
             IF fixes > 0
             THEN IF io = "write_error" THEN [file |-> file, ret |-> 0]
                  ELSE [file |->
                           File(SubAll(file.text, ends,
                               [i \in 1..Len(file.text) |->
                                   Bind(Lookup(file.text,
                                               Max({k \in i..ms[i].end :
                                                       Lookup(file.text, k, 1).end > 0}),
                                               1),
                                        LAMBDA last :
                                            StrReplace(SubSeq(file.text, i, ms[i].end),
                                                       LookupText(last),
                                                       QuotedFallback(last)))],
                               1)),
                        ret |-> fixes]
             ELSE [file |-> file, ret |-> 0])))

-----------------------------------------------------------------------------
(* fix_const_context_issues.py *)

TodoLocalize == <<SP, "//", SP, "TODO: Localize dynamically">>

\* '{fallback}' of a match, always in single quotes.
SingleQuoted(m) == <<SQ>> \o m.fallback \o <<SQ>>

\* Fix 1: const ... = lookup; keeps the declaration and the fallback.
FixConstLocalization(content) ==
    SubAll(content,
        [i \in 1..Len(content) |-> ConstDeclMatch(content, i, 1, FALSE).end],
        [i \in 1..Len(content) |->
            <<"const", SP>> \o DeclaredPart(content, i) \o <<"=", SP>>
            \o SingleQuoted(ConstDeclMatch(content, i, 1, FALSE)) \o <<";">>
            \o TodoLocalize],
        1)

\* (\s+)(\w+)\s*=\s* the lookup and ';', starting at the white space at i.
FieldInitMatch(text, i) ==
    IF i <= Len(text) /\ text[i] \in Whitespace
    THEN Assignment(text, SkipWs(text, i), TRUE)
    ELSE NoMatch

\* Fix 2: name = lookup; after white space.
FixFieldInit(content) ==
    SubAll(content,
        [i \in 1..Len(content) |-> FieldInitMatch(content, i).end],
        [i \in 1..Len(content) |->
            SubSeq(content, i, SkipWs(content, i) - 1)
            \o <<content[SkipWs(content, i)], SP, "=", SP>>
            \o SingleQuoted(FieldInitMatch(content, i)) \o <<";">> \o TodoLocalize],
        1)

\* static\s+const\s+([^=]+)=\s* the lookup and ';', starting at the word
\* static at i.
StaticConstMatch(text, i) ==
    IF /\ i + 1 <= Len(text)
       /\ text[i] = "static"
       /\ text[i + 1] \in Whitespace
    THEN ConstDeclMatch(text, SkipWs(text, i + 1), 1, FALSE)
    ELSE NoMatch

\* Fix 3: static const ... = lookup;
FixStaticContext(content) ==
    SubAll(content,
        [i \in 1..Len(content) |-> StaticConstMatch(content, i).end],
        [i \in 1..Len(content) |->
            <<"static", SP, "const", SP>>
            \o DeclaredPart(content, SkipWs(content, i + 1)) \o <<"=", SP>>
            \o SingleQuoted(StaticConstMatch(content, i)) \o <<";">> \o TodoLocalize],
        1)

\* Fix 4: the loading widget.
FixLoadingWidget(content, file_path) ==
    IF \E i \in 1..Len(file_path) : file_path[i] = "loading_widget.dart"
    THEN StrReplace(content, Replacement("loading", <<"Loading...">>),
                    <<SQ, "Loading...", SQ>>)
    ELSE content

\* \'\3\' of the raw replacement strings of Fix 5: re.sub keeps the
\* backslash in front of each quote.
EscapedQuoted(m) == <<BSL, SQ>> \o m.fallback \o <<BSL, SQ>>

\* Fix 5, first pattern: name = lookup, with or without ';' after it.
FixProblematic(content) ==
    SubAll(content,
        [i \in 1..Len(content) |-> Assignment(content, i, FALSE).end],
        [i \in 1..Len(content) |->
            <<content[i], SP, "=", SP>>
            \o EscapedQuoted(Assignment(content, i, FALSE)) \o TodoLocalize],
        1)

\* String\s+(\w+)\s*=\s* the lookup, starting at the word String at i.
StringDefaultMatch(text, i) ==
    IF /\ i + 1 <= Len(text)
       /\ text[i] = "String"
       /\ text[i + 1] \in Whitespace
    THEN Assignment(text, SkipWs(text, i + 1), FALSE)
    ELSE NoMatch

\* Fix 5, second pattern: String name = lookup.
FixParameterDefault(content) ==
    SubAll(content,
        [i \in 1..Len(content) |-> StringDefaultMatch(content, i).end],
        [i \in 1..Len(content) |->
            <<"String", SP, content[SkipWs(content, i + 1)], SP, "=", SP>>
            \o EscapedQuoted(StringDefaultMatch(content, i)) \o TodoLocalize],
        1)

\* Fix 6 on one line that holds 'const ' and a lookup: every lookup of the
\* line becomes the fallback of the first one, and the note is added.
FixConstLine(line) ==
    Bind({k \in 1..Len(line) : Lookup(line, k, 1).end > 0}, LAMBDA found :
        IF found = {} THEN line
        ELSE Bind(SingleQuoted(Lookup(line, Min(found), 1)), LAMBDA first :
                 SubAll(line,
                     [i \in 1..Len(line) |-> Lookup(line, i, 1).end],
                     [i \in 1..Len(line) |-> first], 1)
                 \o TodoLocalize))

\* Fix 6: the loop over the lines.
FixConstLines(content) ==
    LET lines == Split(content)
        hit(line) == /\ IsSubstr(<<"const", SP>>, line)
                     /\ IsSubstr(<<MARKER>>, line)
    IN  Join([i \in 1..Len(lines) |->
                 IF hit(lines[i]) THEN FixConstLine(lines[i]) ELSE lines[i]])

\* fix_remaining_issues on one file of its loop.
fix_remaining_issues(file, file_path, io) ==
    IF io = "read_error" \/ ~file.exists THEN file
    ELSE Bind(Bind(Bind(Bind(Bind(Bind(Bind(FixConstLocalization(file.text),
                  FixFieldInit), FixStaticContext),
                  LAMBDA content : FixLoadingWidget(content, file_path)),
                  FixProblematic), FixParameterDefault), FixConstLines),
              LAMBDA content :
                  IF content = file.text \/ io = "write_error" THEN file
                  ELSE File(content))

-----------------------------------------------------------------------------
(* One source file under the fix-up scripts *)

MaxFixes == 2         \* calls of a fix-up script on one file

\* Files of lib at depths 0 to 3 below it.
FixPaths ==
    { <<"lib/", "a.dart">>, <<"lib/", "x/", "f.dart">>,
      <<"lib/", "x/", "y/", "f.dart">>, <<"lib/", "x/", "y/", "z/", "f.dart">> }

\* A file of another source directory (--source-dir src).
SrcPath == <<"src/", "f.dart">>

LineComment == <<"//", SP, "Copyright", NL>>
LineClass == <<"class", SP, "A", SP, "{", NL>>
LineImport(name) == ImportStatement(<<name>>) \o <<NL>>

\* What a file starts with: nothing, a comment and a blank line, import
\* statements followed by a blank line or not, the import in question.
FixHeaders ==
    { <<>>,
      LineComment \o <<NL>>,
      LineComment \o LineImport("a.dart") \o LineImport("b.dart") \o <<NL>>,
      LineImport("a.dart"),
      ImportStatement(<<UP, L10N>>) \o <<NL>>,
      ImportStatement(<<PACKAGE, L10N>>) \o <<NL>> }

LookupSave == Replacement("save_button", <<"Save">>)

\* Statements of a method body: a widget returned, an assignment, a named
\* argument of a call.
LineReturn == <<SP, SP, SP, SP, "return", SP>> \o LineConverted("save_button")
LineAssign == <<SP, SP, SP, SP, "title", SP, "=", SP>> \o LookupSave \o <<";", NL>>
LineArg == <<SP, SP, SP, SP, SP, SP, "label", ":", SP>> \o LookupSave \o <<",", NL>>

\* Sites where the lookup cannot stand: a const widget, a static const
\* declaration, the initializer of a field of the class.
LineConstWidget == <<SP, SP, "const", SP>> \o LineConverted("save_button")
LineStaticDecl ==
    <<SP, SP, "static", SP, "const", SP, "String", SP, "t", SP, "=", SP>>
    \o LookupSave \o <<";", NL>>
LineFieldInit ==
    <<SP, SP, "final", SP, "String", SP, "t", SP, "=", SP>> \o LookupSave \o <<";", NL>>

\* A static method that returns the lookup, and a static field followed by
\* an ordinary method.
LineStaticMethod ==
    <<SP, SP, "static", SP, "String", SP, "f", "(", ")", SP, "{", NL>>
LineStaticReturn == <<SP, SP, SP, SP, "return", SP>> \o LookupSave \o <<";", NL>>
LineStaticField == <<SP, SP, "static", SP, "int", SP, "n", ";", NL>>
LineBuild == <<SP, SP, "Widget", SP, "build", "(", ")", SP, "{", NL>>
LineClose == <<SP, SP, "}", NL>>

\* The lines after the header: each kind of site, and a literal never
\* converted.
FixBodies ==
    { LineClass \o LineReturn,
      LineClass \o LinePlain,
      LineClass \o LineAssign,
      LineClass \o LineArg,
      LineClass \o LineConstWidget \o LineReturn,
      LineClass \o LineStaticDecl \o LineAssign,
      LineClass \o LineFieldInit \o LineArg,
      LineClass \o LineStaticMethod \o LineStaticReturn \o LineClose,
      LineClass \o LineStaticField \o LineBuild \o LineReturn \o LineClose }

FixTexts == {h \o b : h \in FixHeaders, b \in FixBodies}

ImportTools == {"fix_missing_imports", "fix_imports_and_context"}
FixTools ==
    ImportTools \cup {"fix_const_issues", "fix_context_issues", "fix_remaining_issues"}

InitFix ==
    /\ dart = [f \in DartFiles |-> File(<<>>)]
    /\ arb = [f \in ArbFiles |-> AbsentArb]
    /\ backup = NoBackup
    /\ pc = "ready"
    /\ applier = NewApplier(arb)
    /\ suggestions = <<>>
    /\ filtered_suggestions = <<>>
    /\ min_confidence = 8
    /\ max_changes = 50
    /\ fileIdx = 0
    /\ automator = NoAutomator
    /\ run = NoRun(dart, arb)
    /\ rw = NoRewrite
    /\ fn = NoCall
    /\ \E tool \in FixTools, text \in FixTexts :
       \E path \in IF tool = "fix_missing_imports" THEN FixPaths \cup {SrcPath}
                   ELSE IF tool = "fix_imports_and_context" THEN FixPaths
                   ELSE {<<"lib/", "x/", "f.dart">>} :
          fx = [NoFix EXCEPT !.tool = tool, !.path = path, !.start = text,
                             !.prev = text, !.text = text]

\* LocalizationIssuesFixer(source_dir).fix_missing_imports(file_path)
FixMissingImports ==
    /\ fx.tool = "fix_missing_imports"
    /\ Len(fx.rets) < MaxFixes
    /\ \E io \in FileOutcomes :
          \E r \in {fix_missing_imports(File(fx.text), fx.path, io)} :
              fx' = [fx EXCEPT !.prev = fx.text, !.text = r.file.text,
                               !.rets = Append(@, r.ret),
                               !.clean = @ /\ io = "ok"]
    /\ UNCHANGED <<sessionVars, rw, fn>>

\* One run of fix_localization_imports.py over the file.
FixImportsAndContext ==
    /\ fx.tool = "fix_imports_and_context"
    /\ Len(fx.rets) < MaxFixes
    /\ \E io \in FileOutcomes :
          \E r \in {fix_imports_and_context(File(fx.text), fx.path, io)} :
              fx' = [fx EXCEPT !.prev = fx.text, !.text = r.text,
                               !.rets = Append(@, IF r.text # fx.text THEN 1 ELSE 0),
                               !.clean = @ /\ io = "ok"]
    /\ UNCHANGED <<sessionVars, rw, fn>>

\* LocalizationIssuesFixer(source_dir).fix_const_issues(file_path)
FixConstIssues ==
    /\ fx.tool = "fix_const_issues"
    /\ Len(fx.rets) < MaxFixes
    /\ \E io \in FileOutcomes :
          \E r \in {fix_const_issues(File(fx.text), io)} :
              fx' = [fx EXCEPT !.prev = fx.text, !.text = r.file.text,
                               !.rets = Append(@, r.ret),
                               !.clean = @ /\ io = "ok"]
    /\ UNCHANGED <<sessionVars, rw, fn>>

\* LocalizationIssuesFixer(source_dir).fix_context_issues(file_path)
FixContextIssues ==
    /\ fx.tool = "fix_context_issues"
    /\ Len(fx.rets) < MaxFixes
    /\ \E io \in FileOutcomes :
          \E r \in {fix_context_issues(File(fx.text), io)} :
              fx' = [fx EXCEPT !.prev = fx.text, !.text = r.file.text,
                               !.rets = Append(@, r.ret),
                               !.clean = @ /\ io = "ok"]
    /\ UNCHANGED <<sessionVars, rw, fn>>

\* One run of fix_const_context_issues.py over the file.
FixRemainingIssues ==
    /\ fx.tool = "fix_remaining_issues"
    /\ Len(fx.rets) < MaxFixes
    /\ \E io \in FileOutcomes :
          \E r \in {fix_remaining_issues(File(fx.text), fx.path, io)} :
              fx' = [fx EXCEPT !.prev = fx.text, !.text = r.text,
                               !.rets = Append(@, IF r.text # fx.text THEN 1 ELSE 0),
                               !.clean = @ /\ io = "ok"]
    /\ UNCHANGED <<sessionVars, rw, fn>>

NextFix ==
    \/ FixMissingImports
    \/ FixImportsAndContext
    \/ FixConstIssues
    \/ FixContextIssues
    \/ FixRemainingIssues

SpecFix == InitFix /\ [][NextFix]_vars

-----------------------------------------------------------------------------
(* Properties of the import fixers *)

\* A line that imports app_localizations.dart.
IsL10nImport(line) ==
    /\ StartsWith(Strip(line), <<"import", SP, SQ>>)
    /\ IsSubstr(<<L10N>>, line)

L10nImports(content) ==
    {i \in 1..Len(Split(content)) : IsL10nImport(Split(content)[i])}

\* The last call was undisturbed and added the import line.
ImportAdded ==
    /\ fx.rets # <<>>
    /\ fx.clean
    /\ Cardinality(L10nImports(fx.text)) > Cardinality(L10nImports(fx.prev))

\* The lines of the content that start with 'import '.
ImportLines(content) ==
    {i \in 1..Len(Split(content)) :
        StartsWith(Strip(Split(content)[i]), <<"import", SP>>)}

BlankOrComment(line) ==
    Strip(line) = <<>> \/ StartsWith(Strip(line), <<"//">>)

\* C22: the import line is inserted directly after the last import line the
\* file had, and at the top, with only comments and blank lines before it,
\* when the file had none.
C22_ImportPlacement ==
    ImportAdded =>
        LET old == ImportLines(fx.prev)
            new == Split(fx.text)
        IN  \E p \in L10nImports(fx.text) :
                IF old # {}
                THEN p = (CHOOSE i \in old : \A j \in old : j <= i) + 1
                ELSE \A i \in 1..(p - 1) : BlankOrComment(new[i])

\* The number of directories between lib and a file of FixPaths.
DepthBelowLib(path) == Len(path) - 2

\* C23: the inserted path has one '../' for each directory between lib and
\* the file, and the two import fixers compute the same path for the file.
C23_ImportPath ==
    (ImportAdded /\ fx.path \in FixPaths) =>
        /\ \E p \in L10nImports(fx.text) :
              Strip(Split(fx.text)[p]) =
                  ImportStatement(Ups(DepthBelowLib(fx.path)) \o <<L10N>>)
        /\ calculate_import_path(fx.path) = ImportsPath(fx.path)

\* C25: after fix_missing_imports has added the import to a file, a second
\* call on the file returns 0 and leaves it unchanged, with one import of
\* app_localizations.dart.
C25_ImportOnce ==
    (/\ fx.tool = "fix_missing_imports"
     /\ fx.clean
     /\ Len(fx.rets) >= 2
     /\ fx.rets[1] = 1) =>
        /\ fx.rets[2] = 0
        /\ Len(fx.rets) = 2 => fx.text = fx.prev
        /\ Cardinality(L10nImports(fx.text)) <= 1

-----------------------------------------------------------------------------
(* Properties of the fix-up passes *)

\* The lines of FixBodies that are statements of a method body.
OrdinaryLines == {LineReturn, LineAssign, LineArg}

\* C26: a lookup in an ordinary statement of a method body is left as it
\* is by every fix-up pass; only const, static and field-initializer sites
\* are turned back into their fallback literal.
C26_OrdinaryUntouched ==
    (fx.rets # <<>> /\ fx.clean) =>
        \A line \in OrdinaryLines :
            IsSubstr(line, fx.start) => IsSubstr(line, fx.text)

-----------------------------------------------------------------------------
(* Properties of the session: a failed snapshot *)

\* C27: when create_backup fails, the snapshot that existed before it is
\* still there, as it was.
C27_FailedSnapshotKeepsOld ==
    [][(pc = "ready" /\ pc' = "aborted" /\ backup.exists) => backup' = backup]_vars

=============================================================================
